---- MODULE Spec2Model ----
(***************************************************************************)
(* Orchestration core of the college chatbot (main.handle_query) together  *)
(* with the Validator (services/query_validator.py) and the Scope Guard    *)
(* (services/scope_guard.py).                                              *)
(*                                                                         *)
(* A query is a sequence of one-character strings, so that strip(),        *)
(* lower(), split() and the regular-expression searches of the source are  *)
(* computed character by character.  Similarities and confidences are      *)
(* integers in hundredths (0.75 is 75).                                    *)
(***************************************************************************)
EXTENDS Integers, Sequences, FiniteSets, TLC

\* ------------------------------------------------------------------------
\* Bounds
\* ------------------------------------------------------------------------
\* Largest number of vocabulary words in a generated query.
MaxWords == 2

\* ------------------------------------------------------------------------
\* Characters and the string primitives of Python used by the source
\* ------------------------------------------------------------------------
LowerLetters ==
    <<"a", "b", "c", "d", "e", "f", "g", "h", "i", "j", "k", "l", "m",
      "n", "o", "p", "q", "r", "s", "t", "u", "v", "w", "x", "y", "z">>

UpperLetters ==
    <<"A", "B", "C", "D", "E", "F", "G", "H", "I", "J", "K", "L", "M",
      "N", "O", "P", "Q", "R", "S", "T", "U", "V", "W", "X", "Y", "Z">>

Digits == {"0", "1", "2", "3", "4", "5", "6", "7", "8", "9"}

Range(s) == {s[i] : i \in DOMAIN s}

\* str.isalnum() on one character
IsAlnum(c) == c \in Range(LowerLetters) \cup Range(UpperLetters) \cup Digits

\* the regular-expression class \w
IsWordChar(c) == IsAlnum(c) \/ c = "_"

\* str.isspace() on one character (the class \s)
IsSpace(c) == c = " "

\* str.lower() on one character
LowerChar(c) ==
    IF c \in Range(UpperLetters)
    THEN LowerLetters[CHOOSE i \in DOMAIN UpperLetters : UpperLetters[i] = c]
    ELSE c

\* str.upper() on one character
UpperChar(c) ==
    IF c \in Range(LowerLetters)
    THEN UpperLetters[CHOOSE i \in DOMAIN LowerLetters : LowerLetters[i] = c]
    ELSE c

\* str.lower()
Lower(s) == [i \in DOMAIN s |-> LowerChar(s[i])]

\* str.strip(): drop leading and trailing whitespace
Strip(s) ==
    LET keep == {i \in DOMAIN s : ~IsSpace(s[i])}
    IN  IF keep = {} THEN <<>>
        ELSE LET lo == CHOOSE i \in keep : \A j \in keep : i <= j
                 hi == CHOOSE i \in keep : \A j \in keep : j <= i
             IN  SubSeq(s, lo, hi)

\* the characters of s at the positions idx, in order (what re.sub and
\* str.replace leave when they delete the other characters)
Keep(s, idx) ==
    LET kth(k) == CHOOSE i \in idx : Cardinality({j \in idx : j < i}) = k - 1
    IN  [k \in 1..Cardinality(idx) |-> s[kth(k)]]

\* len(s.split()): number of maximal runs of non-whitespace characters
WordCount(s) ==
    Cardinality({i \in DOMAIN s :
                    ~IsSpace(s[i]) /\ (i = 1 \/ IsSpace(s[i - 1]))})

\* "w in s" for strings: w occurs in s as a substring
Contains(s, w) ==
    \E i \in 1..(Len(s) - Len(w) + 1) :
        \A j \in 1..Len(w) : s[i + j - 1] = w[j]

\* One alternative of a (?i) regular expression: the literal text w, with a
\* \b word boundary required before it (lb) and/or after it (rb).
Alt(lb, w, rb) == [lb |-> lb, w |-> w, rb |-> rb]

\* The alternative alt matches s at position i.  Every literal that carries
\* a \b starts (lb) or ends (rb) with a word character, so \b holds there iff
\* the neighbouring character is missing or is not a word character.
MatchAt(s, i, alt) ==
    LET e == i + Len(alt.w) - 1
    IN  /\ e <= Len(s)
        /\ \A j \in 1..Len(alt.w) : LowerChar(s[i + j - 1]) = alt.w[j]
        /\ alt.lb => (i = 1 \/ ~IsWordChar(s[i - 1]))
        /\ alt.rb => (e = Len(s) \/ ~IsWordChar(s[e + 1]))

\* re.search over a list of patterns: some alternative matches somewhere
Search(alts, s) == \E alt \in alts : \E i \in 1..Len(s) : MatchAt(s, i, alt)

\* query_validator.py SELF_HARM_PATTERNS, one entry per regex alternative
SELF_HARM_PATTERNS ==
    { Alt(TRUE, <<"k", "i", "l", "l">>, TRUE),
      Alt(TRUE, <<"s", "u", "i", "c", "i", "d", "e">>, TRUE),
      Alt(TRUE, <<"h", "a", "n", "g">>, TRUE),
      Alt(TRUE, <<"c", "u", "t", " ", "w", "r", "i", "s", "t">>, TRUE),
      Alt(TRUE, <<"s", "l", "i", "t">>, TRUE),
      Alt(TRUE, <<"o", "v", "e", "r", "d", "o", "s", "e">>, TRUE),
      Alt(TRUE, <<"j", "u", "m", "p", " ", "o", "f", "f">>, TRUE),
      Alt(TRUE, <<"h", "u", "r", "t", " ", "m", "y", "s", "e", "l", "f">>, TRUE),
      Alt(TRUE, <<"h", "a", "r", "m", " ", "m", "y", "s", "e", "l", "f">>, TRUE),
      Alt(TRUE, <<"e", "n", "d", " ", "l", "i", "f", "e">>, TRUE),
      Alt(TRUE, <<"d", "i", "e">>, TRUE),
      Alt(TRUE, <<"d", "i", "e", " ", "s", "o", "o", "n">>, TRUE) }

\* query_validator.py ABUSE_PATTERNS
ABUSE_PATTERNS ==
    { Alt(TRUE, <<"f", "u", "c", "k">>, TRUE),
      Alt(TRUE, <<"b", "i", "t", "c", "h">>, TRUE),
      Alt(TRUE, <<"m", "a", "d", "a", "r", "c", "h", "o", "d">>, TRUE),
      Alt(TRUE, <<"c", "h", "u", "t", "i", "y", "a">>, TRUE),
      Alt(TRUE, <<"a", "s", "s", "h", "o", "l", "e">>, TRUE),
      Alt(TRUE, <<"b", "a", "s", "t", "a", "r", "d">>, TRUE),
      Alt(TRUE, <<"d", "a", "m", "n">>, TRUE),
      Alt(TRUE, <<"c", "r", "a", "p">>, TRUE),
      Alt(TRUE, <<"i", "d", "i", "o", "t">>, TRUE),
      Alt(TRUE, <<"m", "o", "r", "o", "n">>, TRUE),
      Alt(TRUE, <<"s", "t", "u", "p", "i", "d">>, TRUE),
      Alt(TRUE, <<"r", "e", "t", "a", "r", "d">>, TRUE) }

\* query_validator.py PROMPT_INJECTION_PATTERNS
PROMPT_INJECTION_PATTERNS ==
    { Alt(TRUE, <<"i", "g", "n", "o", "r", "e", " ", "p", "r", "e", "v", "i", "o", "u", "s">>, FALSE),
      Alt(FALSE, <<"d", "i", "s", "r", "e", "g", "a", "r", "d">>, FALSE),
      Alt(FALSE, <<"f", "o", "r", "g", "e", "t">>, FALSE),
      Alt(FALSE, <<"s", "y", "s", "t", "e", "m", " ", "p", "r", "o", "m", "p", "t">>, TRUE),
      Alt(TRUE, <<"r", "o", "l", "e", "-", "p", "l", "a", "y", " ", "a", "s">>, FALSE),
      Alt(FALSE, <<"p", "r", "e", "t", "e", "n", "d">>, FALSE),
      Alt(FALSE, <<"y", "o", "u", " ", "a", "r", "e", " ", "n", "o", "w">>, FALSE),
      Alt(FALSE, <<"y", "o", "u", " ", "a", "r", "e", " ", "a">>, TRUE),
      Alt(TRUE, <<"f", "r", "o", "m", " ", "n", "o", "w", " ", "o", "n">>, FALSE),
      Alt(FALSE, <<"h", "e", "n", "c", "e", "f", "o", "r", "t", "h">>, FALSE),
      Alt(FALSE, <<"s", "t", "a", "r", "t", "i", "n", "g", " ", "n", "o", "w">>, TRUE),
      Alt(TRUE, <<"f", "o", "l", "l", "o", "w", " ", "t", "h", "e", "s", "e", " ", "i", "n", "s", "t", "r", "u", "c", "t", "i", "o", "n", "s">>, TRUE),
      Alt(TRUE, <<"n", "e", "w", " ", "i", "n", "s", "t", "r", "u", "c", "t", "i", "o", "n", "s">>, TRUE),
      Alt(TRUE, <<"u", "p", "d", "a", "t", "e", "d", " ", "r", "u", "l", "e", "s">>, TRUE),
      Alt(TRUE, <<"d", "r", "o", "p">>, TRUE),
      Alt(TRUE, <<"d", "e", "l", "e", "t", "e">>, TRUE),
      Alt(TRUE, <<"i", "n", "s", "e", "r", "t">>, TRUE),
      Alt(TRUE, <<"u", "p", "d", "a", "t", "e">>, TRUE),
      Alt(TRUE, <<"s", "e", "l", "e", "c", "t">>, TRUE),
      Alt(TRUE, <<"u", "n", "i", "o", "n">>, TRUE),
      Alt(TRUE, <<"w", "h", "e", "r", "e", " ", "1", "=", "1">>, TRUE),
      Alt(TRUE, <<"e", "v", "a", "l">>, TRUE),
      Alt(TRUE, <<"e", "x", "e", "c">>, TRUE),
      Alt(TRUE, <<"i", "m", "p", "o", "r", "t">>, TRUE),
      Alt(TRUE, <<"_", "_", "i", "m", "p", "o", "r", "t", "_", "_">>, TRUE),
      Alt(TRUE, <<"c", "o", "m", "p", "i", "l", "e">>, TRUE),
      Alt(TRUE, <<"g", "l", "o", "b", "a", "l", "s">>, TRUE),
      Alt(TRUE, <<"l", "o", "c", "a", "l", "s">>, TRUE) }

\* query_validator.py SENSITIVE_EXTRACTION_PATTERNS
SENSITIVE_EXTRACTION_PATTERNS ==
    { Alt(TRUE, <<"a", "l", "l", " ", "s", "t", "u", "d", "e", "n", "t", " ", "n", "a", "m", "e", "s">>, TRUE),
      Alt(TRUE, <<"l", "i", "s", "t", " ", "o", "f", " ", "p", "a", "s", "s", "w", "o", "r", "d">>, TRUE),
      Alt(TRUE, <<"a", "d", "m", "i", "n", " ", "a", "c", "c", "o", "u", "n", "t">>, TRUE),
      Alt(TRUE, <<"s", "e", "c", "r", "e", "t">>, TRUE),
      Alt(TRUE, <<"a", "p", "i", " ", "k", "e", "y">>, TRUE),
      Alt(TRUE, <<"a", "c", "c", "e", "s", "s", " ", "t", "o", "k", "e", "n">>, TRUE),
      Alt(TRUE, <<"a", "l", "l", " ", "e", "m", "a", "i", "l", "s">>, TRUE),
      Alt(TRUE, <<"a", "l", "l", " ", "p", "h", "o", "n", "e", " ", "n", "u", "m", "b", "e", "r">>, TRUE),
      Alt(TRUE, <<"d", "a", "t", "a", "b", "a", "s", "e", " ", "d", "u", "m", "p">>, TRUE),
      Alt(TRUE, <<"b", "a", "c", "k", "u", "p">>, TRUE) }

\* scope_guard.py OUT_OF_SCOPE_PATTERNS
OUT_OF_SCOPE_PATTERNS ==
    { Alt(TRUE, <<"b", "i", "t", "c", "o", "i", "n">>, FALSE),
      Alt(FALSE, <<"c", "r", "y", "p", "t", "o">>, FALSE),
      Alt(FALSE, <<"s", "t", "o", "c", "k">>, FALSE),
      Alt(FALSE, <<"s", "h", "a", "r", "e", " ", "m", "a", "r", "k", "e", "t">>, TRUE),
      Alt(TRUE, <<"v", "i", "r", "a", "t">>, FALSE),
      Alt(FALSE, <<"k", "o", "h", "l", "i">>, FALSE),
      Alt(FALSE, <<"c", "r", "i", "c", "k", "e", "t">>, FALSE),
      Alt(FALSE, <<"i", "p", "l">>, FALSE),
      Alt(FALSE, <<"f", "o", "o", "t", "b", "a", "l", "l">>, FALSE),
      Alt(FALSE, <<"m", "e", "s", "s", "i">>, FALSE),
      Alt(FALSE, <<"r", "o", "n", "a", "l", "d", "o">>, TRUE),
      Alt(TRUE, <<"m", "o", "v", "i", "e">>, FALSE),
      Alt(FALSE, <<"a", "c", "t", "o", "r">>, FALSE),
      Alt(FALSE, <<"a", "c", "t", "r", "e", "s", "s">>, FALSE),
      Alt(FALSE, <<"n", "e", "t", "f", "l", "i", "x">>, FALSE),
      Alt(FALSE, <<"a", "n", "i", "m", "e">>, TRUE),
      Alt(TRUE, <<"p", "o", "l", "i", "t", "i", "c", "s">>, FALSE),
      Alt(FALSE, <<"e", "l", "e", "c", "t", "i", "o", "n">>, FALSE),
      Alt(FALSE, <<"m", "i", "n", "i", "s", "t", "e", "r">>, FALSE),
      Alt(FALSE, <<"p", "r", "i", "m", "e", " ", "m", "i", "n", "i", "s", "t", "e", "r">>, TRUE),
      Alt(TRUE, <<"g", "i", "r", "l", "f", "r", "i", "e", "n", "d">>, FALSE),
      Alt(FALSE, <<"b", "o", "y", "f", "r", "i", "e", "n", "d">>, FALSE),
      Alt(FALSE, <<"l", "o", "v", "e", " ", "l", "e", "t", "t", "e", "r">>, FALSE),
      Alt(FALSE, <<"b", "r", "e", "a", "k", "u", "p">>, TRUE),
      Alt(TRUE, <<"b", "l", "a", "c", "k", " ", "h", "o", "l", "e">>, FALSE),
      Alt(FALSE, <<"g", "a", "l", "a", "x", "y">>, FALSE),
      Alt(FALSE, <<"u", "n", "i", "v", "e", "r", "s", "e">>, FALSE),
      Alt(FALSE, <<"s", "p", "a", "c", "e">>, TRUE) }

\* scope_guard.py PROGRAMMING_PATTERNS
PROGRAMMING_PATTERNS ==
    { Alt(TRUE, <<"p", "y", "t", "h", "o", "n">>, FALSE),
      Alt(FALSE, <<"j", "a", "v", "a">>, FALSE),
      Alt(FALSE, <<"c", "+", "+">>, FALSE),
      Alt(FALSE, <<"j", "a", "v", "a", "s", "c", "r", "i", "p", "t">>, FALSE),
      Alt(FALSE, <<"r", "e", "a", "c", "t">>, FALSE),
      Alt(FALSE, <<"n", "o", "d", "e">>, FALSE),
      Alt(FALSE, <<"f", "l", "a", "s", "k">>, FALSE),
      Alt(FALSE, <<"d", "j", "a", "n", "g", "o">>, TRUE),
      Alt(TRUE, <<"w", "r", "i", "t", "e", " ", "c", "o", "d", "e">>, FALSE),
      Alt(FALSE, <<"p", "r", "o", "g", "r", "a", "m">>, FALSE),
      Alt(FALSE, <<"b", "u", "g">>, FALSE),
      Alt(FALSE, <<"e", "r", "r", "o", "r">>, FALSE),
      Alt(FALSE, <<"e", "x", "c", "e", "p", "t", "i", "o", "n">>, FALSE),
      Alt(FALSE, <<"s", "t", "a", "c", "k", " ", "t", "r", "a", "c", "e">>, TRUE),
      Alt(TRUE, <<"l", "e", "e", "t", "c", "o", "d", "e">>, FALSE),
      Alt(FALSE, <<"d", "s", "a">>, FALSE),
      Alt(FALSE, <<"b", "i", "n", "a", "r", "y", " ", "s", "e", "a", "r", "c", "h">>, FALSE),
      Alt(FALSE, <<"d", "p">>, TRUE) }

\* scope_guard.py RAG_FORBIDDEN_PATTERNS
RAG_FORBIDDEN_PATTERNS ==
    { Alt(TRUE, <<"l", "o", "c", "a", "t", "i", "o", "n">>, FALSE),
      Alt(FALSE, <<"a", "d", "d", "r", "e", "s", "s">>, FALSE),
      Alt(FALSE, <<"w", "h", "e", "r", "e", " ", "i", "s", " ", "t", "h", "e", " ", "c", "o", "l", "l", "e", "g", "e">>, FALSE),
      Alt(FALSE, <<"m", "a", "p">>, TRUE),
      Alt(TRUE, <<"p", "h", "o", "n", "e">>, FALSE),
      Alt(FALSE, <<"c", "o", "n", "t", "a", "c", "t">>, FALSE),
      Alt(FALSE, <<"n", "u", "m", "b", "e", "r">>, FALSE),
      Alt(FALSE, <<"e", "m", "a", "i", "l">>, FALSE),
      Alt(FALSE, <<"c", "a", "l", "l">>, TRUE),
      Alt(TRUE, <<"t", "i", "m", "i", "n", "g">>, FALSE),
      Alt(FALSE, <<"o", "p", "e", "n", "i", "n", "g", " ", "h", "o", "u", "r", "s">>, FALSE),
      Alt(FALSE, <<"w", "o", "r", "k", "i", "n", "g", " ", "h", "o", "u", "r", "s">>, FALSE),
      Alt(FALSE, <<"o", "f", "f", "i", "c", "e", " ", "h", "o", "u", "r", "s">>, TRUE) }

\* scope_guard.py COLLEGE_SCOPE_KEYWORDS
COLLEGE_SCOPE_KEYWORDS ==
    { <<"a", "d", "m", "i", "s", "s", "i", "o", "n">>,
      <<"a", "p", "p", "l", "y">>,
      <<"a", "p", "p", "l", "i", "c", "a", "t", "i", "o", "n">>,
      <<"e", "l", "i", "g", "i", "b", "i", "l", "i", "t", "y">>,
      <<"d", "o", "c", "u", "m", "e", "n", "t", "s">>,
      <<"f", "e", "e", "s">>,
      <<"f", "e", "e">>,
      <<"r", "e", "f", "u", "n", "d">>,
      <<"s", "c", "h", "o", "l", "a", "r", "s", "h", "i", "p">>,
      <<"h", "o", "s", "t", "e", "l">>,
      <<"m", "e", "s", "s">>,
      <<"t", "r", "a", "n", "s", "p", "o", "r", "t">>,
      <<"b", "u", "s">>,
      <<"e", "x", "a", "m">>,
      <<"r", "e", "s", "u", "l", "t", "s">>,
      <<"r", "e", "v", "a", "l", "u", "a", "t", "i", "o", "n">>,
      <<"h", "a", "l", "l", " ", "t", "i", "c", "k", "e", "t">>,
      <<"s", "e", "m", "e", "s", "t", "e", "r">>,
      <<"t", "i", "m", "e", "t", "a", "b", "l", "e">>,
      <<"s", "y", "l", "l", "a", "b", "u", "s">>,
      <<"a", "t", "t", "e", "n", "d", "a", "n", "c", "e">>,
      <<"i", "n", "t", "e", "r", "n", "a", "l">>,
      <<"d", "e", "p", "a", "r", "t", "m", "e", "n", "t">>,
      <<"c", "o", "u", "r", "s", "e">>,
      <<"b", "r", "a", "n", "c", "h">>,
      <<"f", "a", "c", "u", "l", "t", "y">>,
      <<"b", "o", "n", "a", "f", "i", "d", "e">>,
      <<"n", "o", "c">>,
      <<"c", "e", "r", "t", "i", "f", "i", "c", "a", "t", "e">>,
      <<"i", "d", " ", "c", "a", "r", "d">>,
      <<"p", "l", "a", "c", "e", "m", "e", "n", "t">>,
      <<"i", "n", "t", "e", "r", "n", "s", "h", "i", "p">>,
      <<"t", "r", "a", "i", "n", "i", "n", "g">>,
      <<"c", "d", "c">>,
      <<"t", "p", "o">>,
      <<"l", "i", "b", "r", "a", "r", "y">>,
      <<"l", "a", "b">>,
      <<"c", "a", "m", "p", "u", "s">>,
      <<"c", "l", "u", "b">> }

\* scope_guard.py GREETING_KEYWORDS
GREETING_KEYWORDS ==
    { <<"h", "i">>,
      <<"h", "e", "l", "l", "o">>,
      <<"h", "e", "y">>,
      <<"g", "r", "e", "e", "t", "i", "n", "g", "s">>,
      <<"g", "o", "o", "d", " ", "m", "o", "r", "n", "i", "n", "g">>,
      <<"g", "o", "o", "d", " ", "a", "f", "t", "e", "r", "n", "o", "o", "n">>,
      <<"g", "o", "o", "d", " ", "e", "v", "e", "n", "i", "n", "g">> }

\* ------------------------------------------------------------------------
\* services/query_validator.py
\* ------------------------------------------------------------------------
\* GIBBERISH_PATTERNS[0]: ^(asdf|qwer|zxcv|1234|0000)+$
GibberishChunks ==
    { <<"a", "s", "d", "f">>, <<"q", "w", "e", "r">>, <<"z", "x", "c", "v">>,
      <<"1", "2", "3", "4">>, <<"0", "0", "0", "0">> }

Block(s, k) == SubSeq(s, 4 * k - 3, 4 * k)

MatchesKnownMash(s) ==
    /\ Len(s) >= 4
    /\ Len(s) % 4 = 0
    /\ \A k \in 1..(Len(s) \div 4) : Block(s, k) \in GibberishChunks

\* GIBBERISH_PATTERNS[1]: ^(....)\1+$
MatchesRepeatedChunk(s) ==
    /\ Len(s) >= 8
    /\ Len(s) % 4 = 0
    /\ \A k \in 2..(Len(s) \div 4) : Block(s, k) = Block(s, 1)

\* GIBBERISH_PATTERNS[2]: ^[0-9]+$
MatchesDigitsOnly(s) == Len(s) >= 1 /\ \A i \in DOMAIN s : s[i] \in Digits

NotSpace(c) == c # " "

is_gibberish(q) ==
    LET q_low == Lower(Strip(q))
        q_clean == Keep(q_low, {i \in DOMAIN q_low : NotSpace(q_low[i])})
        special == Cardinality({i \in DOMAIN q : ~IsAlnum(q[i])})
    IN  \/ Len(q_clean) <= 2
        \/ 2 * special > Len(q)
        \/ MatchesKnownMash(q_clean)
        \/ MatchesRepeatedChunk(q_clean)
        \/ MatchesDigitsOnly(q_clean)

is_self_harm_or_violence(q) == Search(SELF_HARM_PATTERNS, q)

is_abusive(q) == Search(ABUSE_PATTERNS, q)

is_prompt_injection(q) == Search(PROMPT_INJECTION_PATTERNS, q)

is_sensitive_extraction_attempt(q) == Search(SENSITIVE_EXTRACTION_PATTERNS, q)

\* the rejection texts of validate_query
EmptyMessage == "Query is empty. Please type your question."
CrisisMessage == "[ALERT] **Crisis Support** [ALERT] ... If you're having thoughts of self-harm, please reach out: ..."
AbuseMessage == "Please use respectful language. This assistant is here to help you."
InjectionMessage == "[WARNING] **Invalid Query** ... Please ask a direct question."
DeniedMessage == "[DENIED] **Access Denied** ... please contact the registrar or student services directly."
GibberishMessage == "Your message looks invalid. Please ask a proper question."
TooShortMessage == "Please provide more detail. Example: 'What is the hostel fee?'"

\* validate_query with the word-count check moved ahead of the other checks
validate_query_short_first(query) ==
    LET q == Strip(query)
    IN  IF q = <<>> THEN <<FALSE, EmptyMessage>>
        ELSE IF WordCount(q) < 2 THEN <<FALSE, TooShortMessage>>
        ELSE IF is_self_harm_or_violence(q) THEN <<FALSE, CrisisMessage>>
        ELSE IF is_abusive(q) THEN <<FALSE, AbuseMessage>>
        ELSE IF is_prompt_injection(q) THEN <<FALSE, InjectionMessage>>
        ELSE IF is_sensitive_extraction_attempt(q) THEN <<FALSE, DeniedMessage>>
        ELSE IF is_gibberish(q) THEN <<FALSE, GibberishMessage>>
        ELSE <<TRUE, "valid">>

\* validate_query with the abuse check moved ahead of the self-harm check
validate_query_abuse_first(query) ==
    LET q == Strip(query)
    IN  IF q = <<>> THEN <<FALSE, EmptyMessage>>
        ELSE IF is_abusive(q) THEN <<FALSE, AbuseMessage>>
        ELSE IF is_self_harm_or_violence(q) THEN <<FALSE, CrisisMessage>>
        ELSE IF is_prompt_injection(q) THEN <<FALSE, InjectionMessage>>
        ELSE IF is_sensitive_extraction_attempt(q) THEN <<FALSE, DeniedMessage>>
        ELSE IF is_gibberish(q) THEN <<FALSE, GibberishMessage>>
        ELSE IF WordCount(q) < 2 THEN <<FALSE, TooShortMessage>>
        ELSE <<TRUE, "valid">>

\* validate_query(query) -> (is_valid, reason)
validate_query(query) ==
    LET q == Strip(query)
    IN  IF q = <<>> THEN <<FALSE, EmptyMessage>>
        ELSE IF is_self_harm_or_violence(q) THEN <<FALSE, CrisisMessage>>
        ELSE IF is_abusive(q) THEN <<FALSE, AbuseMessage>>
        ELSE IF is_prompt_injection(q) THEN <<FALSE, InjectionMessage>>
        ELSE IF is_sensitive_extraction_attempt(q) THEN <<FALSE, DeniedMessage>>
        ELSE IF is_gibberish(q) THEN <<FALSE, GibberishMessage>>
        ELSE IF WordCount(q) < 2 THEN <<FALSE, TooShortMessage>>
        ELSE <<TRUE, "valid">>

\* ------------------------------------------------------------------------
\* services/scope_guard.py
\* ------------------------------------------------------------------------
OUT_OF_SCOPE_RESPONSE == "I am a college bot. I can only answer questions related to RVR&JC College administration, admissions, and campus life."

WordOrSpace(c) == IsWordChar(c) \/ IsSpace(c)

is_greeting(query) ==
    LET q == Lower(Strip(query))
    IN  Keep(q, {i \in DOMAIN q : WordOrSpace(q[i])}) \in GREETING_KEYWORDS

\* scope_check with the in-domain keywords tested before the patterns
scope_check_keyword_first(query) ==
    LET q == Lower(Strip(query))
    IN  IF is_greeting(query) THEN <<TRUE, "greeting">>
        ELSE IF \E k \in COLLEGE_SCOPE_KEYWORDS : Contains(q, k)
             THEN <<TRUE, "college_scope">>
        ELSE IF Search(OUT_OF_SCOPE_PATTERNS, query)
             THEN <<FALSE, "out_of_scope">>
        ELSE IF /\ Search(PROGRAMMING_PATTERNS, query)
                /\ \/ Contains(q, <<"c", "o", "d", "e">>)
                   \/ Contains(q, <<"p", "r", "o", "g", "r", "a", "m">>)
             THEN <<FALSE, "programming_out_of_scope">>
        ELSE <<TRUE, "neutral_allow">>

scope_check(query) ==
    LET q == Lower(Strip(query))
    IN  IF is_greeting(query) THEN <<TRUE, "greeting">>
        ELSE IF Search(OUT_OF_SCOPE_PATTERNS, query)
             THEN <<FALSE, "out_of_scope">>
        ELSE IF /\ Search(PROGRAMMING_PATTERNS, query)
                /\ \/ Contains(q, <<"c", "o", "d", "e">>)
                   \/ Contains(q, <<"p", "r", "o", "g", "r", "a", "m">>)
             THEN <<FALSE, "programming_out_of_scope">>
        ELSE IF \E k \in COLLEGE_SCOPE_KEYWORDS : Contains(q, k)
             THEN <<TRUE, "college_scope">>
        ELSE <<TRUE, "neutral_allow">>

is_rag_forbidden(query) == Search(RAG_FORBIDDEN_PATTERNS, query)

\* hybrid_retriever.py route_query: local_keywords
local_keywords ==
    { <<"c", "o", "l", "l", "e", "g", "e">>,
      <<"d", "e", "p", "a", "r", "t", "m", "e", "n", "t">>,
      <<"f", "e", "e">>,
      <<"t", "u", "i", "t", "i", "o", "n">>,
      <<"p", "l", "a", "c", "e", "m", "e", "n", "t">>,
      <<"c", "a", "m", "p", "u", "s">>,
      <<"h", "o", "s", "t", "e", "l">>,
      <<"l", "i", "b", "r", "a", "r", "y">>,
      <<"e", "x", "a", "m">>,
      <<"s", "y", "l", "l", "a", "b", "u", "s">>,
      <<"f", "a", "c", "u", "l", "t", "y">>,
      <<"a", "d", "m", "i", "n">>,
      <<"l", "a", "b", "o", "r", "a", "t", "o", "r", "y">>,
      <<"p", "r", "o", "f", "e", "s", "s", "o", "r", "s">>,
      <<"r", "v", "r">>,
      <<"j", "c">>,
      <<"b", "u", "s">>,
      <<"t", "r", "a", "n", "s", "p", "o", "r", "t">>,
      <<"c", "a", "n", "t", "e", "e", "n">>,
      <<"c", "a", "l", "e", "n", "d", "a", "r">>,
      <<"r", "e", "s", "u", "l", "t">> }

\* hybrid_retriever.py route_query: web_keywords
web_keywords ==
    { <<"n", "e", "w", "s">>,
      <<"e", "v", "e", "n", "t">>,
      <<"h", "a", "c", "k", "a", "t", "h", "o", "n">>,
      <<"t", "e", "c", "h", "n", "o", "l", "o", "g", "y">>,
      <<"a", "i">>,
      <<"c", "o", "m", "p", "a", "r", "e">>,
      <<"r", "a", "n", "k", "i", "n", "g">>,
      <<"c", "u", "r", "r", "e", "n", "t", " ", "a", "f", "f", "a", "i", "r", "s">>,
      <<"w", "o", "r", "l", "d">>,
      <<"i", "n", "d", "i", "a">>,
      <<"g", "l", "o", "b", "a", "l">>,
      <<"l", "a", "t", "e", "s", "t">>,
      <<"g", "o", "o", "g", "l", "e">>,
      <<"m", "i", "c", "r", "o", "s", "o", "f", "t">>,
      <<"t", "r", "e", "n", "d">>,
      <<"p", "o", "l", "i", "t", "i", "c", "s">>,
      <<"w", "e", "a", "t", "h", "e", "r">> }

\* hybrid_retriever.py route_query: hybrid_keywords
hybrid_keywords ==
    { <<"c", "o", "m", "p", "a", "r", "e">>,
      <<"v", "s">>,
      <<"b", "e", "t", "t", "e", "r", " ", "t", "h", "a", "n">>,
      <<"d", "i", "f", "f", "e", "r", "e", "n", "c", "e", " ", "b", "e", "t", "w", "e", "e", "n">>,
      <<"r", "a", "n", "k", "i", "n", "g", " ", "o", "f", " ", "o", "u", "r", " ", "c", "o", "l", "l", "e", "g", "e">>,
      <<"m", "a", "r", "k", "e", "t", " ", "t", "r", "e", "n", "d">>,
      <<"i", "n", "d", "u", "s", "t", "r", "y", " ", "d", "e", "m", "a", "n", "d">> }
\* ------------------------------------------------------------------------
\* bots/hybrid_retriever.py: route_query
\* ------------------------------------------------------------------------
route_query(query) ==
    LET query_lower == Lower(query)
        any(ks) == \E k \in ks : Contains(query_lower, k)
        is_local == any(local_keywords)
        is_web == any(web_keywords)
    IN  IF /\ any(hybrid_keywords)
           /\ \/ is_local
              \/ Contains(query_lower, <<"u", "s">>)
              \/ Contains(query_lower, <<"o", "u", "r">>)
        THEN "hybrid"
        ELSE IF is_local /\ ~is_web THEN "local"
        ELSE IF is_web /\ ~is_local THEN "web"
        ELSE IF is_local /\ is_web THEN "hybrid"
        ELSE "local"

\* ------------------------------------------------------------------------
\* config/settings.py (hundredths)
\* ------------------------------------------------------------------------
BOT2_SIMILARITY_THRESHOLD == 75
BOT2_MIN_SIMILARITY == 60

\* ------------------------------------------------------------------------
\* Inputs
\* ------------------------------------------------------------------------
\* words of the generated queries: one or more for every check of the
\* Validator and every rule of the Scope Guard
Vocabulary ==
    { <<"k", "i", "l", "l">>,
      <<"i", "d", "i", "o", "t">>,
      <<"f", "o", "r", "g", "e", "t">>,
      <<"s", "e", "c", "r", "e", "t">>,
      <<"a", "s", "d", "f">>,
      <<"!", "!", "!", "!">>,
      <<"1", "2">>,
      <<"h", "e", "l", "l", "o">>,
      <<"g", "o", "o", "d">>,
      <<"M", "o", "r", "n", "i", "n", "g">>,
      <<"c", "r", "i", "c", "k", "e", "t">>,
      <<"p", "y", "t", "h", "o", "n">>,
      <<"p", "r", "o", "g", "r", "a", "m">>,
      <<"f", "e", "e">>,
      <<"p", "h", "o", "n", "e">> }

\* what may follow the last word: nothing, or punctuation and a blank
Suffixes == { <<>>, <<"!", " ">> }

\* the words of the queries handed to handle_query
OrchestratorVocabulary ==
    { <<"k", "i", "l", "l">>,
      <<"h", "e", "l", "l", "o">>,
      <<"g", "o", "o", "d">>,
      <<"M", "o", "r", "n", "i", "n", "g", "!", " ">>,
      <<"c", "r", "i", "c", "k", "e", "t">>,
      <<"p", "r", "o", "g", "r", "a", "m">>,
      <<"f", "e", "e">>,
      <<"p", "h", "o", "n", "e">> }

\* " ".join(ws)
RECURSIVE Join(_)
Join(ws) ==
    IF ws = <<>> THEN <<>>
    ELSE IF Len(ws) = 1 THEN ws[1]
    ELSE ws[1] \o <<" ">> \o Join(Tail(ws))

\* the queries of at most MaxWords words of V
WordSequences(V) == UNION {[1..n -> V] : n \in 0..MaxWords}

ValidatorQueries ==
    { Join(ws) \o sfx : ws \in WordSequences(Vocabulary), sfx \in Suffixes }

Queries == { Join(ws) : ws \in WordSequences(OrchestratorVocabulary) }

\* ------------------------------------------------------------------------
\* Python values
\* ------------------------------------------------------------------------
\* None, and a value that is not None
None == <<>>
Some(v) == <<v>>

\* dict.get(k, d): the default is used only when the key is absent
Get(c, k, d) == IF k \in DOMAIN c THEN c[k] ELSE d

\* c[k] = v
Put(c, k, v) == [x \in DOMAIN c \cup {k} |-> IF x = k THEN v ELSE c[x]]

\* truth value of an optional string: None and "" are false
Truthy(r) == r # None /\ r[1] # ""

\* ------------------------------------------------------------------------
\* core/context.py
\* ------------------------------------------------------------------------
\* the id create_context draws for the invocation
QueryId == "q-0001"

create_context(q) ==
    [k \in {"query_id", "query", "start_time", "validation", "scope", "route",
            "conf", "bot_used", "latency_ms", "error"} |->
        IF k = "query_id" THEN Some(QueryId)
        ELSE IF k = "query" THEN Some(q)
        ELSE IF k = "start_time" THEN Some(0)
        ELSE None]

\* ------------------------------------------------------------------------
\* Response texts
\* ------------------------------------------------------------------------
greeting_msg == "Hi! I am the RVR&JC College Chatbot. How can I assist you with admissions, fees, or campus life today?"
RuleSentinel == "Sorry, I don't have information on that."
RuleAnswer == "<text of a matched AIML template>"
Bot2UnavailableMessage == "Knowledge base temporarily unavailable."
Bot2NoHitsMessage == "No relevant information found."
Bot2LowMessage == "I found some related information, but I'm not confident enough. Please ask more specifically or contact ..."
Bot2ErrorMessage == "Error during semantic search: ..."
StoredAnswer == "<answer text of a stored QA entry>"
Bot3NoInfoMessage == "[NO INFO] **No Official Information Found** ... I don't have information about this topic in the official college database."
Bot3ErrorMessage == "[ERROR] Error generating answer: ..."
RagAnswer == "<text generated from retrieved context>"
SystemErrorMessage == "I encountered a system error while searching. Please try again later."
NoBotMessage == "[ERROR] No bot was able to generate an answer. Please try rephrasing your question."
CriticalMessage == "[ERROR] A critical error occurred. Please try again or contact support."

\* str.startswith("[ERROR]") over the response texts above
StartsWithErrorTag(text) == text \in {Bot3ErrorMessage, NoBotMessage, CriticalMessage}

\* ------------------------------------------------------------------------
\* Audit log (core/audit_logger.py): one record per event
\* ------------------------------------------------------------------------
AuditRecord(event, bot) == [event |-> event, bot |-> bot, query_id |-> QueryId]

\* ------------------------------------------------------------------------
\* Collaborators, by what they hand back to handle_query
\* ------------------------------------------------------------------------
Categories ==
    { "Admissions & Registrations", "Financial Matters", "Academic Affairs",
      "Student Services", "Campus Life", "General Information",
      "Cross-Domain Queries" }

ClassifierConfidences == {90}

\* classifier/classifier.pkl as ModelManager.get_classifier finds it: absent,
\* present but rejected by joblib.load, or present and loadable
Artifacts == {"missing", "corrupt", "loadable"}

\* classifier.predict_category for a state of the artifact:
\* ModelManager.get_classifier returns None for a missing file (lines 63-66),
\* re-raises the exception of joblib.load (lines 60-62), and otherwise
\* returns the model, whose label and top probability are handed back
predict_category(artifact) ==
    IF artifact = "missing"
    THEN {[out |-> "return", category |-> "General", confidence |-> 0]}
    ELSE IF artifact = "corrupt"
    THEN {[out |-> "raise", category |-> "", confidence |-> 0]}
    ELSE {[out |-> "return", category |-> c, confidence |-> p] :
            c \in Categories, p \in ClassifierConfidences}

\* everything predict_category hands back to handle_query
ClassifierOutcomes == UNION {predict_category(artifact) : artifact \in Artifacts}

\* rule_bot.get_rule_response: the kernel's response, the sentinel when the
\* kernel has no match, or an exception of the kernel
RuleOutcomes ==
    { [out |-> "raise", text |-> ""],
      [out |-> "return", text |-> RuleSentinel],
      [out |-> "return", text |-> RuleAnswer] }

\* answer texts a QA entry can hold (rebuild_domain_indices stores "" for a
\* missing answer: answers = group["answer"].fillna(""))
AnswerTexts == {"", StoredAnswer}

Bot2Outcome(out, text, score, conf, events) ==
    [out |-> out, text |-> text, score |-> score, conf |-> conf,
     audit |-> events]

\* bot2_semantic.bot2_answer, one member per return statement
Bot2Outcomes(category) ==
    \* ModelManager raises before the try block
    {Bot2Outcome("raise", "", 0, FALSE, <<>>)}
    \* no index for the domain and none for the fallback domain
    \cup {Bot2Outcome("return", Bot2UnavailableMessage, 0, FALSE,
                      <<AuditRecord("RETRIEVAL_QUALITY", "BOT-2")>>)}
    \* no valid hit
    \cup {Bot2Outcome("return", Bot2NoHitsMessage, 0, FALSE, <<>>)}
    \* best hit below the minimum, no recovery hit
    \cup {Bot2Outcome("return", Bot2LowMessage, 50, FALSE,
                      <<AuditRecord("RETRIEVAL_QUALITY", "BOT-2"),
                        AuditRecord("ANSWER_REJECTION", "BOT-2")>>)}
    \* cross-domain recovery hit
    \cup {Bot2Outcome("return", a, s, TRUE,
                      <<AuditRecord("RETRIEVAL_QUALITY", "BOT-2"),
                        AuditRecord("RETRIEVAL_QUALITY", "BOT-2-RECOVERY")>>) :
            a \in AnswerTexts,
            s \in IF category # "Cross-Domain Queries" THEN {70} ELSE {}}
    \* best hit at or above the minimum
    \cup {Bot2Outcome("return", a, s, s >= BOT2_SIMILARITY_THRESHOLD,
                      <<AuditRecord("RETRIEVAL_QUALITY", "BOT-2"),
                        AuditRecord("ANSWER_GENERATION", "BOT-2")>>) :
            a \in AnswerTexts, s \in {70, 90}}
    \* exception inside the try block
    \cup {Bot2Outcome("return", Bot2ErrorMessage, 0, FALSE,
                      <<AuditRecord("ERROR", "BOT-2")>>)}

Bot3Outcome(out, text, score, conf, events) ==
    [out |-> out, text |-> text, score |-> score, conf |-> conf,
     audit |-> events]

\* bot3_rag.bot3_answer, one member per return statement
Bot3Outcomes(q) ==
    LET route == route_query(q)
    IN  \* exception outside the try block
        {Bot3Outcome("raise", "", 0, FALSE, <<>>)}
        \* nothing retrieved on the local route
        \cup (IF route = "local"
              THEN {Bot3Outcome("return", Bot3NoInfoMessage, 0, FALSE,
                                <<AuditRecord("ANSWER_REJECTION", "BOT-3")>>)}
              ELSE {})
        \* answer generated from the context
        \cup {Bot3Outcome("return", RagAnswer,
                          IF route = "local" THEN 80 ELSE 90, TRUE,
                          <<AuditRecord("ANSWER_GENERATION", "BOT-3")>>)}
        \* exception inside the try block
        \cup {Bot3Outcome("return", Bot3ErrorMessage, 0, FALSE,
                          <<AuditRecord("ERROR", "BOT-3")>>)}

\* ------------------------------------------------------------------------
\* core/query_tracker.py
\* ------------------------------------------------------------------------
UnresolvedEntry(q, category, semantic_score, rag_confidence) ==
    [query |-> q, category |-> category, semantic_score |-> semantic_score,
     rag_confidence |-> rag_confidence, status |-> "unresolved"]

\* what the file system does to log_unresolved_query: nothing, makedirs
\* raises, or reading/writing the file raises (caught and logged inside)
FsFaults == {"none", "mkdir", "write"}

\* the file after log_unresolved_query
log_unresolved_query(file, q, category, semantic_score, rag_confidence, fault) ==
    IF fault # "none" THEN file
    ELSE IF \E i \in DOMAIN file : file[i].query = q THEN file
    ELSE Append(file, UnresolvedEntry(q, category, semantic_score, rag_confidence))

\* ------------------------------------------------------------------------
\* core/stats_manager.py
\* ------------------------------------------------------------------------
\* the stats file after StatsManager.increment_query_count(q)
increment_query_count(stats, q) ==
    IF q = <<>> \/ Len(Strip(q)) < 3 THEN stats
    ELSE LET s == Strip(q)
             formatted_query == <<UpperChar(s[1])>> \o Tail(s)
         IN  Put(stats, formatted_query, Get(stats, formatted_query, 0) + 1)

\* ------------------------------------------------------------------------
\* main.handle_query
\* ------------------------------------------------------------------------
VARIABLES
    pc,                 \* position of the invocation in handle_query
    query,              \* the argument
    ctx,                \* the Query Context dict
    oos_bound,          \* the local name OUT_OF_SCOPE_RESPONSE is bound
    routed_to_bot,      \* local routed_to_bot
    execution_order,    \* local execution_order
    bot_idx,            \* position of the for loop in execution_order
    response,           \* local response
    bot_used_final,     \* local bot_used_final
    answer_confidence,  \* local answer_confidence
    pending,            \* value of the return statement awaiting finally
    result,             \* what the caller observes
    calls,              \* collaborators invoked so far, in order
    audit,              \* the audit log
    unresolved_file,    \* data/unresolved_queries.json
    stats_file          \* data/query_stats.json

\* bots/bot2_semantic.py: one invocation of bot2_answer
VARIABLES
    b2_pc,              \* position of the invocation in bot2_answer
    b2_category,        \* the argument category
    valid_hits,         \* local valid_hits
    best_hit,           \* local best_hit
    max_similarity,     \* local max_similarity
    dom_idx,            \* position of the recovery loop in ALL_DOMAINS
    best_recovery_hit,  \* local best_recovery_hit
    recovery_seen,      \* the top entries at or above the minimum that
                        \* idx.search returned in the recovery loop
    b2_result           \* what the caller of bot2_answer observes

\* bots/bot3_rag.py: one invocation of bot3_answer
VARIABLES
    b3_pc,              \* position of the invocation in bot3_answer
    b3_query,           \* the argument query
    b3_route,           \* local route
    b3_chunks,          \* number of chunks retrieve_context returned
    b3_conf,            \* the confidence retrieve_context returned
    local_context,      \* local local_context of build_hybrid_context
    web_context,        \* local web_context of build_hybrid_context
    ollama_calls,       \* calls of the text generator so far
    b3_result           \* what the caller of bot3_answer observes

\* core/model_manager.py and the files it reads
VARIABLES
    classifier_pkl      \* classifier/classifier.pkl: missing, corrupt or loadable

\* core/stats_manager.py: threads inside StatsManager.increment_query_count
VARIABLES
    st_pc,              \* position of each thread in increment_query_count
    st_query,           \* the argument of each thread
    st_stats,           \* local stats of each thread
    FILE_LOCK,          \* the module's threading.Lock: None or its holder
    stats_io,           \* data/query_stats.json: closed, truncated or partial
    stats_before        \* the stats file before any of the threads ran

\* core/model_manager.py: one domain's directory under embeddings/domains,
\* a query thread in get_domain_qa_resources and a rebuild_domain_indices run
VARIABLES
    ix_pc,              \* position of the reader and of the updater
    domain_dir,         \* the domain's directory exists
    index_file,         \* qa_index.faiss: absent, partial, old or new
    meta_file,          \* qa_metadata.pkl: absent, partial, old or new
    r_index,            \* the reader's local index
    r_qa_pairs,         \* the reader's local qa_pairs
    ix_result,          \* what get_domain_qa_resources returned
    _domain_resources   \* the class-level cache entry of the domain

\* knowledge_updater.py and the domain indices built from data/qa_dataset.csv
VARIABLES
    pr_pc,              \* reevaluate, rebuild, search or done
    qa_dataset,         \* the rows of data/qa_dataset.csv
    domain_folders,     \* embeddings/domains: the metadata rows of each folder
    resources_cache,    \* ModelManager._domain_resources of the serving process
    promoted,           \* the rows reevaluate_unresolved_queries added
    pr_answers          \* what bot2_answer returned for each promoted row

\* bots/hybrid_retriever.py: the HybridRetriever object and its clock
VARIABLES
    tavily,             \* self.tavily is a client (TRUE) or None (FALSE)
    web_cache,          \* self.cache: query -> [result, timestamp]
    web_now,            \* time.time(), in seconds
    web_calls,          \* the search_web calls made so far
    tavily_calls,       \* the calls of self.tavily.search made so far
    web_last            \* the last search_web call: what it found and returned

\* bots/bot3_rag.py: one call of chunk_document
VARIABLES
    ch_pc,              \* start, loop or done
    ch_len,             \* len(doc.content)
    ch_size,            \* chunk_size
    ch_overlap,         \* overlap
    ch_start,           \* local start
    ch_chunks           \* local chunks: [start_char, end_char] of each

\* bots/hybrid_retriever.py and bots/bot3_rag.py: the local context of one
\* bot3_answer call, by its lengths
VARIABLES
    cx_pc,              \* retrieve, check, generate, done
    cx_chunks,          \* the chunks retrieve_context returned, in rank order
    cx_context,         \* local context
    cx_prompt           \* the context generate_answer_from_context was given

\* core/query_tracker.py and knowledge_updater.py: the unresolved-queries
\* file, one serving process and one run of reevaluate_unresolved_queries
VARIABLES
    UNRESOLVED_FILE,    \* the queries of data/unresolved_queries.json
    tracker_lock,       \* FILE_LOCK of core/query_tracker.py is held
    log_query,          \* argument query of the log_unresolved_query call
    log_data,           \* its local data
    log_calls,          \* the log_unresolved_query calls made so far
    re_pc,              \* read, evaluate, update, done
    re_unresolved,      \* local unresolved of reevaluate_unresolved_queries
    remaining_queries,  \* local remaining_queries
    new_qa_pairs,       \* local new_qa_pairs
    qa_rows,            \* the questions appended to data/qa_dataset.csv
    ever_logged         \* the queries that were ever written to the file

handle_vars ==
    <<pc, query, ctx, oos_bound, routed_to_bot, execution_order, bot_idx,
      response, bot_used_final, answer_confidence, pending, result, calls,
      audit, unresolved_file, stats_file>>

bot2_vars ==
    <<b2_pc, b2_category, valid_hits, best_hit, max_similarity, dom_idx,
      best_recovery_hit, recovery_seen, b2_result>>

\* the variables of the components that handle_query calls or shares files with
bot3_vars ==
    <<b3_pc, b3_query, b3_route, b3_chunks, b3_conf, local_context,
      web_context, ollama_calls, b3_result>>

manager_vars == <<classifier_pkl>>

stats_vars == <<st_pc, st_query, st_stats, FILE_LOCK, stats_io, stats_before>>

index_vars ==
    <<ix_pc, domain_dir, index_file, meta_file, r_index, r_qa_pairs, ix_result,
      _domain_resources>>

promotion_vars ==
    <<pr_pc, qa_dataset, domain_folders, resources_cache, promoted, pr_answers>>

web_vars == <<tavily, web_cache, web_now, web_calls, tavily_calls, web_last>>

\* the variables of the components behind Strategy C and the trackers
chunk_vars == <<ch_pc, ch_len, ch_size, ch_overlap, ch_start, ch_chunks>>

context_vars == <<cx_pc, cx_chunks, cx_context, cx_prompt>>

tracker_vars ==
    <<UNRESOLVED_FILE, tracker_lock, log_query, log_data, log_calls, re_pc,
      re_unresolved, remaining_queries, new_qa_pairs, qa_rows, ever_logged>>

support_vars == <<web_vars, chunk_vars, context_vars, tracker_vars>>

component_vars ==
    <<bot2_vars, bot3_vars, manager_vars, stats_vars, index_vars, promotion_vars,
      support_vars>>

vars == <<handle_vars, component_vars>>

\* no invocation of bot2_answer is under way
Bot2Idle ==
    /\ b2_pc = "idle"
    /\ b2_category = None
    /\ valid_hits = <<>>
    /\ best_hit = None
    /\ max_similarity = 0
    /\ dom_idx = 0
    /\ best_recovery_hit = None
    /\ recovery_seen = <<>>
    /\ b2_result = None

\* no invocation of bot3_answer is under way
Bot3Idle ==
    /\ b3_pc = "idle"
    /\ b3_query = <<>>
    /\ b3_route = None
    /\ b3_chunks = 0
    /\ b3_conf = None
    /\ local_context = ""
    /\ web_context = ""
    /\ ollama_calls = 0
    /\ b3_result = None

\* the files of ModelManager as deployed
ManagerIdle == classifier_pkl = "loadable"

\* the threads that call StatsManager.increment_query_count
NThreads == 2

Threads == 1..NThreads

EmptyStats == [k \in {} |-> 0]

\* no thread is inside StatsManager and the stats file is closed
StatsIdle ==
    /\ st_pc = [t \in Threads |-> "idle"]
    /\ st_query = [t \in Threads |-> <<>>]
    /\ st_stats = [t \in Threads |-> EmptyStats]
    /\ FILE_LOCK = None
    /\ stats_io = "closed"
    /\ stats_before = EmptyStats

\* the processes of the index model
Procs == {"reader", "updater"}

\* the domain's files as deployed, no reader and no rebuild under way
IndexIdle ==
    /\ ix_pc = [p \in Procs |-> "idle"]
    /\ domain_dir = TRUE
    /\ index_file = "old"
    /\ meta_file = "old"
    /\ r_index = "none"
    /\ r_qa_pairs = "empty"
    /\ ix_result = None
    /\ _domain_resources = None

\* the knowledge updater is not running
PromotionIdle ==
    /\ pr_pc = "idle"
    /\ qa_dataset = <<>>
    /\ domain_folders = <<>>
    /\ resources_cache = <<>>
    /\ promoted = <<>>
    /\ pr_answers = <<>>

\* a HybridRetriever just constructed without an API key
WebIdle ==
    /\ tavily = FALSE
    /\ web_cache = <<>>
    /\ web_now = 0
    /\ web_calls = 0
    /\ tavily_calls = 0
    /\ web_last = None

\* no call of chunk_document is under way
ChunkIdle ==
    /\ ch_pc = "idle"
    /\ ch_len = 0
    /\ ch_size = 1
    /\ ch_overlap = 0
    /\ ch_start = 0
    /\ ch_chunks = <<>>

\* no context is being assembled
ContextIdle ==
    /\ cx_pc = "idle"
    /\ cx_chunks = <<>>
    /\ cx_context = None
    /\ cx_prompt = None

\* no unresolved query is being logged or re-evaluated
TrackerIdle ==
    /\ UNRESOLVED_FILE = <<>>
    /\ tracker_lock = FALSE
    /\ log_query = None
    /\ log_data = <<>>
    /\ log_calls = 0
    /\ re_pc = "idle"
    /\ re_unresolved = <<>>
    /\ remaining_queries = <<>>
    /\ new_qa_pairs = <<>>
    /\ qa_rows = <<>>
    /\ ever_logged = {}

SupportIdle == WebIdle /\ ChunkIdle /\ ContextIdle /\ TrackerIdle

ComponentsIdle ==
    Bot2Idle /\ Bot3Idle /\ StatsIdle /\ IndexIdle /\ PromotionIdle /\ SupportIdle

Call(fn, out, text, score) ==
    [fn |-> fn, out |-> out, text |-> text, score |-> score]

\* a query left in the unresolved file by an earlier invocation
PriorQuery == <<"g", "o", "o", "d", " ", "f", "e", "e">>

\* the state in which handle_query(q) is entered
Entered(q) ==
    /\ pc = "validate"
    /\ query = q
    /\ ctx = create_context(query)
    /\ oos_bound = FALSE
    /\ routed_to_bot = None
    /\ execution_order = <<>>
    /\ bot_idx = 0
    /\ response = None
    /\ bot_used_final = None
    /\ answer_confidence = None
    /\ pending = None
    /\ result = [kind |-> "running", value |-> ""]
    /\ calls = <<>>
    /\ audit = <<>>
    /\ unresolved_file = <<UnresolvedEntry(PriorQuery, "General", 0, 0)>>
    /\ stats_file = [k \in {} |-> 0]

Init ==
    /\ \E q \in Queries : Entered(q)
    /\ ComponentsIdle
    /\ classifier_pkl \in Artifacts

\* [STAGE 1] lines 83-107
Validate ==
    /\ pc = "validate"
    /\ LET v == validate_query(query)
       IN  /\ calls' = Append(calls, Call("validate_query",
                                IF v[1] THEN "valid" ELSE "invalid", v[2], 0))
           /\ ctx' = Put(ctx, "validation", Some([valid |-> v[1], reason |-> v[2]]))
           /\ IF ~v[1]
              THEN /\ audit' = Append(audit, AuditRecord("ROUTING_DECISION", "NONE"))
                   /\ pending' = Some(v[2])
                   /\ pc' = "finally"
              ELSE /\ UNCHANGED <<audit, pending>>
                   /\ pc' = "scope"
    /\ UNCHANGED <<query, oos_bound, routed_to_bot, execution_order, bot_idx,
                   response, bot_used_final, answer_confidence, result,
                   unresolved_file, stats_file>>
    /\ UNCHANGED component_vars

\* [STAGE 2] lines 112-165
ScopeCheck ==
    /\ pc = "scope"
    /\ LET s == scope_check(query)
           c1 == Put(ctx, "scope", Some([in_scope |-> s[1], reason |-> s[2]]))
       IN  /\ calls' = Append(calls, Call("scope_check", s[2], "", 0))
           /\ IF s[2] = "greeting"
              THEN /\ ctx' = Put(Put(Put(c1, "final_bot", Some("BOT-1 (RULE-BASED)")),
                                     "answer_confidence", Some(100)),
                                 "final_response", Some(greeting_msg))
                   /\ audit' = Append(audit, AuditRecord("ROUTING_DECISION", "BOT-1"))
                   /\ pending' = Some(greeting_msg)
                   /\ pc' = "finally"
              ELSE IF ~s[1]
              THEN IF oos_bound
                   THEN /\ ctx' = Put(c1, "final_response", Some(OUT_OF_SCOPE_RESPONSE))
                        /\ audit' = Append(audit, AuditRecord("ROUTING_DECISION", "NONE"))
                        /\ pending' = Some(OUT_OF_SCOPE_RESPONSE)
                        /\ pc' = "finally"
                   ELSE \* line 147 reads the local before line 189 binds it:
                        \* UnboundLocalError
                        /\ ctx' = c1
                        /\ UNCHANGED <<audit, pending>>
                        /\ pc' = "except"
              ELSE /\ ctx' = c1
                   /\ UNCHANGED <<audit, pending>>
                   /\ pc' = "classify"
    /\ UNCHANGED <<query, oos_bound, routed_to_bot, execution_order, bot_idx,
                   response, bot_used_final, answer_confidence, result,
                   unresolved_file, stats_file>>
    /\ UNCHANGED component_vars

\* [STAGE 3] lines 170-184
Classify ==
    /\ pc = "classify"
    /\ \E o \in predict_category(classifier_pkl) :
        /\ calls' = Append(calls, Call("predict_category", o.out, o.category, o.confidence))
        /\ IF o.out = "raise"
           THEN /\ ctx' = ctx
                /\ pc' = "except"
           ELSE /\ ctx' = Put(ctx, "classifier",
                              Some([category |-> o.category, confidence |-> o.confidence]))
                /\ pc' = "route"
    /\ UNCHANGED <<query, oos_bound, routed_to_bot, execution_order, bot_idx,
                   response, bot_used_final, answer_confidence, pending, result,
                   audit, unresolved_file, stats_file>>
    /\ UNCHANGED component_vars

\* lines 241-255 with the lookup-first order for every category
ExecutionOrder_lookup_first(category) == <<"BOT-2", "BOT-1", "BOT-3">>

\* lines 241-255: the order of the strategies for a category
ExecutionOrder(category) ==
    IF category \in {"Admissions & Registrations", "Financial Matters",
                     "Academic Affairs", "Campus Life", "Cross-Domain Queries"}
    THEN <<"BOT-2", "BOT-1", "BOT-3">>
    ELSE IF category = "Student Services" THEN <<"BOT-1", "BOT-2", "BOT-3">>
    ELSE IF category = "General Information" THEN <<"BOT-2", "BOT-1", "BOT-3">>
    ELSE <<"BOT-1", "BOT-2", "BOT-3">>

\* lines 202-212: the routing label
RoutedTo(q) == IF is_rag_forbidden(q) THEN "BOT-1" ELSE "BOT-1-CHAIN"

\* [STAGE 4] lines 187-257
Route ==
    /\ pc = "route"
    /\ oos_bound' = TRUE
    /\ routed_to_bot' = Some(RoutedTo(query))
    /\ ctx' = Put(ctx, "routing_decision",
                  Some([routed_to |-> RoutedTo(query),
                        classifier_confidence |-> ctx["classifier"][1].confidence]))
    /\ response' = None
    /\ bot_used_final' = None
    /\ answer_confidence' = None
    /\ execution_order' = ExecutionOrder(ctx["classifier"][1].category)
    /\ bot_idx' = 1
    /\ pc' = "loop"
    /\ UNCHANGED <<query, pending, result, calls, audit, unresolved_file, stats_file>>
    /\ UNCHANGED component_vars

\* the for statement moves to the next bot_name, or ends
Advance ==
    /\ bot_idx' = bot_idx + 1
    /\ pc' = IF bot_idx = Len(execution_order) THEN "escalate" ELSE "loop"

\* line 260: if response: break
LoopBreak(r) == Truthy(r)

\* line 268: the rule response is an answer
RuleAnswered(rule_resp) == rule_resp # "" /\ rule_resp # RuleSentinel

Break ==
    /\ pc = "loop"
    /\ LoopBreak(response)
    /\ pc' = "escalate"
    /\ UNCHANGED <<query, ctx, oos_bound, routed_to_bot, execution_order, bot_idx,
                   response, bot_used_final, answer_confidence, pending, result,
                   calls, audit, unresolved_file, stats_file>>
    /\ UNCHANGED component_vars

\* lines 263-276
ExecBot1 ==
    /\ pc = "loop"
    /\ ~LoopBreak(response)
    /\ execution_order[bot_idx] = "BOT-1"
    /\ \E o \in RuleOutcomes :
        /\ calls' = Append(calls, Call("get_rule_response",
                            IF o.out = "raise" THEN "raise"
                            ELSE IF RuleAnswered(o.text) THEN "confident"
                            ELSE "not_confident", o.text, 0))
        /\ IF o.out = "return" /\ RuleAnswered(o.text)
           THEN /\ response' = Some(o.text)
                /\ bot_used_final' = Some("BOT-1")
                /\ answer_confidence' = Some(95)
           ELSE UNCHANGED <<response, bot_used_final, answer_confidence>>
    /\ Advance
    /\ UNCHANGED <<query, ctx, oos_bound, routed_to_bot, execution_order,
                   pending, result, audit, unresolved_file, stats_file>>
    /\ UNCHANGED component_vars

\* lines 279-294
ExecBot2 ==
    /\ pc = "loop"
    /\ ~LoopBreak(response)
    /\ execution_order[bot_idx] = "BOT-2"
    /\ \E o \in Bot2Outcomes(ctx["classifier"][1].category) :
        /\ calls' = Append(calls, Call("bot2_answer",
                            IF o.out = "raise" THEN "raise"
                            ELSE IF o.conf THEN "confident"
                            ELSE "not_confident", o.text, o.score))
        /\ audit' = audit \o o.audit
        /\ IF o.out = "raise"
           THEN UNCHANGED <<ctx, response, bot_used_final, answer_confidence>>
           ELSE /\ ctx' = Put(ctx, "bot2_similarity", Some(o.score))
                /\ IF o.conf
                   THEN /\ response' = Some(o.text)
                        /\ bot_used_final' = Some("BOT-2")
                        /\ answer_confidence' = Some(o.score)
                   ELSE UNCHANGED <<response, bot_used_final, answer_confidence>>
    /\ Advance
    /\ UNCHANGED <<query, oos_bound, routed_to_bot, execution_order,
                   pending, result, unresolved_file, stats_file>>
    /\ UNCHANGED component_vars

\* lines 297-299: BOT-3 inside the loop is a no-op
PassBot3 ==
    /\ pc = "loop"
    /\ ~LoopBreak(response)
    /\ execution_order[bot_idx] = "BOT-3"
    /\ Advance
    /\ UNCHANGED <<query, ctx, oos_bound, routed_to_bot, execution_order,
                   response, bot_used_final, answer_confidence, pending, result,
                   calls, audit, unresolved_file, stats_file>>
    /\ UNCHANGED component_vars

\* line 331 with the similarity comparison reversed
ShouldLogUnresolved_reversed(rag_is_confident, bot2_score) ==
    ~rag_is_confident /\ bot2_score > BOT2_MIN_SIMILARITY

\* line 331: the query is logged as unresolved
ShouldLogUnresolved(rag_is_confident, bot2_score) ==
    ~rag_is_confident /\ bot2_score < BOT2_MIN_SIMILARITY

\* line 326 keeping the answer of Strategy C only when it is confident
ResponseAfterBot3_confident_only(answer, rag_is_confident) ==
    IF rag_is_confident THEN Some(answer) ELSE None

\* line 326: the response after Strategy C returned
ResponseAfterBot3(answer, rag_is_confident) == Some(answer)

\* lines 310-344
TryBot3 ==
    /\ pc = "escalate"
    /\ response = None
    /\ \E o \in Bot3Outcomes(query), fault \in FsFaults :
        LET bot2_score == Get(ctx, "bot2_similarity", Some(0))[1]
            category == ctx["classifier"][1].category
            logs == o.out = "return" /\ ShouldLogUnresolved(o.conf, bot2_score)
        IN  /\ logs \/ fault = "none"
            /\ audit' = audit \o o.audit
            /\ calls' = calls
                  \o <<Call("bot3_answer",
                           IF o.out = "raise" THEN "raise"
                           ELSE IF o.conf THEN "confident"
                           ELSE "not_confident", o.text, o.score)>>
                  \o (IF logs
                      THEN <<Call("log_unresolved_query",
                                  IF fault = "mkdir" THEN "raise"
                                  ELSE IF fault = "write" THEN "failed"
                                  ELSE "ok", "", bot2_score)>>
                      ELSE <<>>)
            /\ bot_used_final' = Some("BOT-3")
            /\ answer_confidence' =
                  IF o.out = "raise" THEN answer_confidence ELSE Some(o.score)
            /\ response' =
                  IF o.out = "raise" \/ (logs /\ fault = "mkdir")
                  THEN Some(SystemErrorMessage)
                  ELSE ResponseAfterBot3(o.text, o.conf)
            /\ unresolved_file' =
                  IF logs
                  THEN log_unresolved_query(unresolved_file, query, category,
                                            bot2_score, o.score, fault)
                  ELSE unresolved_file
    /\ pc' = "respond"
    /\ UNCHANGED <<query, ctx, oos_bound, routed_to_bot, execution_order, bot_idx,
                   pending, result, stats_file>>
    /\ UNCHANGED component_vars

\* line 310 with a response already set
SkipBot3 ==
    /\ pc = "escalate"
    /\ response # None
    /\ pc' = "respond"
    /\ UNCHANGED <<query, ctx, oos_bound, routed_to_bot, execution_order, bot_idx,
                   response, bot_used_final, answer_confidence, pending, result,
                   calls, audit, unresolved_file, stats_file>>
    /\ UNCHANGED component_vars

\* lines 372-373
FinalResponse(r) == IF r = None THEN NoBotMessage ELSE r[1]

\* lines 353-378
Respond ==
    /\ pc = "respond"
    /\ audit' = Append(audit, AuditRecord("ROUTING_DECISION",
                    IF bot_used_final # None THEN bot_used_final[1]
                    ELSE routed_to_bot[1]))
    /\ response' = Some(FinalResponse(response))
    /\ ctx' = Put(Put(Put(ctx, "final_bot", bot_used_final),
                      "answer_confidence", answer_confidence),
                  "final_response", Some(FinalResponse(response)))
    /\ pending' = Some(FinalResponse(response))
    /\ pc' = "finally"
    /\ UNCHANGED <<query, oos_bound, routed_to_bot, execution_order, bot_idx,
                   bot_used_final, answer_confidence, result, calls,
                   unresolved_file, stats_file>>
    /\ UNCHANGED component_vars

\* lines 380-389: the top-level handler
Except ==
    /\ pc = "except"
    /\ audit' = Append(audit, AuditRecord("ERROR", "main_orchestrator"))
    /\ pending' = Some(CriticalMessage)
    /\ pc' = "finally"
    /\ UNCHANGED <<query, ctx, oos_bound, routed_to_bot, execution_order, bot_idx,
                   response, bot_used_final, answer_confidence, result, calls,
                   unresolved_file, stats_file>>
    /\ UNCHANGED component_vars

\* the characters of a scope reason (str(scope_reason))
ReasonChars(reason) ==
    CASE reason = "greeting" -> <<"g", "r", "e", "e", "t", "i", "n", "g">>
      [] reason = "out_of_scope" ->
            <<"o", "u", "t", "_", "o", "f", "_", "s", "c", "o", "p", "e">>
      [] reason = "programming_out_of_scope" ->
            <<"p", "r", "o", "g", "r", "a", "m", "m", "i", "n", "g", "_",
              "o", "u", "t", "_", "o", "f", "_", "s", "c", "o", "p", "e">>
      [] reason = "college_scope" ->
            <<"c", "o", "l", "l", "e", "g", "e", "_", "s", "c", "o", "p", "e">>
      [] reason = "neutral_allow" ->
            <<"n", "e", "u", "t", "r", "a", "l", "_", "a", "l", "l", "o", "w">>

\* lines 413-419
CatText(c) ==
    LET scope_reason == c["scope"][1].reason
    IN  IF scope_reason = "greeting" THEN "Greeting"
        ELSE IF Contains(Lower(ReasonChars(scope_reason)),
                         <<"o", "u", "t", " ", "o", "f", " ", "s", "c", "o", "p", "e">>)
             THEN "Out of Scope"
        ELSE IF "classifier" \in DOMAIN c THEN c["classifier"][1].category
        ELSE "Unknown"

\* line 428
StatusText(c) ==
    LET ans_text == Get(c, "final_response", Some(""))[1]
    IN  IF c["error"] # None \/ (ans_text # "" /\ StartsWithErrorTag(ans_text))
        THEN "FAILURE" ELSE "SUCCESS"

\* line 430: the usage counter is incremented
CountsUsage(c) ==
    StatusText(c) = "SUCCESS" /\ CatText(c) # "Greeting" /\ CatText(c) # "Out of Scope"

\* the finally block without the call of line 400
log_latency_skipped(log) == log

\* lines 400-404: audit_logger.log_latency
log_latency(log) == Append(log, AuditRecord("LATENCY", "NONE"))

\* lines 391-446: the finally block, then the invocation ends
Finally ==
    /\ pc = "finally"
    /\ audit' = log_latency(audit)
    /\ ctx' = Put(ctx, "latency_ms", Some(0))
    /\ IF Get(ctx, "scope", Some([reason |-> "unknown"])) = None
       THEN \* line 413: None has no attribute get; AttributeError replaces
            \* the pending return value
            /\ result' = [kind |-> "raised", value |-> "AttributeError"]
            /\ UNCHANGED <<calls, stats_file>>
       ELSE /\ result' = [kind |-> "returned", value |-> pending[1]]
            /\ IF CountsUsage(ctx)
               THEN /\ calls' = Append(calls, Call("increment_query_count", "ok", "", 0))
                    /\ stats_file' = increment_query_count(stats_file, ctx["query"][1])
               ELSE UNCHANGED <<calls, stats_file>>
    /\ pc' = "done"
    /\ UNCHANGED <<query, oos_bound, routed_to_bot, execution_order, bot_idx,
                   response, bot_used_final, answer_confidence, pending,
                   unresolved_file>>
    /\ UNCHANGED component_vars

Next ==
    \/ Validate
    \/ ScopeCheck
    \/ Classify
    \/ Route
    \/ Break
    \/ ExecBot1
    \/ ExecBot2
    \/ PassBot3
    \/ TryBot3
    \/ SkipBot3
    \/ Respond
    \/ Except
    \/ Finally

Spec == Init /\ [][Next]_vars

\* ------------------------------------------------------------------------
\* validate_query on its own, over the larger query set
\* ------------------------------------------------------------------------
ValidatorInit ==
    /\ \E q \in ValidatorQueries : Entered(q)
    /\ ComponentsIdle
    /\ ManagerIdle

ValidatorNext == Validate

ValidatorSpec == ValidatorInit /\ [][ValidatorNext]_vars

\* ------------------------------------------------------------------------
\* bots/bot2_semantic.py: bot2_answer, step by step
\* ------------------------------------------------------------------------
\* most entries an index search returns
MaxHits == 2

\* similarities 1/(1+d) of the entries a search returns (hundredths)
HitSimilarities == {50, 58, 65, 80, 95}

\* similarities of the top entry of another domain's index
RecoverySimilarities == {55, 62, 80}

\* the categories bot2_answer is called with
Bot2Categories ==
    {None, Some("Financial Matters"), Some("Cross-Domain Queries"), Some("General")}

ALL_DOMAINS ==
    << "Admissions & Registrations", "Financial Matters", "Academic Affairs",
       "Student Services", "Campus Life", "General Information",
       "Cross-Domain Queries" >>

Min(a, b) == IF a <= b THEN a ELSE b

\* lines 97-110 without the clamp of line 104
Hit_unclamped(answer, similarity, is_match) ==
    [answer |-> answer, similarity |-> similarity,
     effective_score |-> IF is_match THEN similarity + 10 ELSE similarity,
     is_match |-> is_match]

\* lines 97-110: an entry of valid_hits, with the domain boost
Hit(answer, similarity, is_match) ==
    [answer |-> answer, similarity |-> similarity,
     effective_score |-> IF is_match THEN Min(100, similarity + 10) ELSE similarity,
     is_match |-> is_match]

\* the entries one search can return: at most MaxHits, nearest first; an
\* entry matches the domain only when a category was given
SearchHits(category) ==
    LET hit == { Hit(a, s, m) : a \in AnswerTexts, s \in HitSimilarities,
                                m \in IF category = None THEN {FALSE} ELSE BOOLEAN }
    IN  { hs \in UNION {[1..n -> hit] : n \in 0..MaxHits} :
            \A i, j \in DOMAIN hs : i < j => hs[i].similarity >= hs[j].similarity }

\* h put behind the entries of sorted that score at least as high
InsertHit(h, sorted) ==
    LET k == Cardinality({i \in DOMAIN sorted :
                            sorted[i].effective_score >= h.effective_score})
    IN  SubSeq(sorted, 1, k) \o <<h>> \o SubSeq(sorted, k + 1, Len(sorted))

\* line 119: valid_hits.sort(key=effective_score, reverse=True), stable
RECURSIVE SortHits(_)
SortHits(hits) ==
    IF hits = <<>> THEN <<>>
    ELSE InsertHit(hits[Len(hits)], SortHits(SubSeq(hits, 1, Len(hits) - 1)))

Bot2Returned(answer, similarity, confident) ==
    [kind |-> "returned", answer |-> answer, similarity |-> similarity,
     confident |-> confident]

Bot2Raised == [kind |-> "raised", answer |-> "", similarity |-> 0, confident |-> FALSE]

\* what is not touched by bot2_answer
Bot2Untouched ==
    <<pc, query, ctx, oos_bound, routed_to_bot, execution_order, bot_idx,
      response, bot_used_final, answer_confidence, pending, result, calls,
      unresolved_file, stats_file, bot3_vars, manager_vars, stats_vars,
      index_vars, promotion_vars, support_vars>>

\* bot2_answer(query, query_id, category) is entered
Bot2Entered(category) ==
    /\ b2_pc = "load"
    /\ b2_category = category
    /\ valid_hits = <<>>
    /\ best_hit = None
    /\ max_similarity = 0
    /\ dom_idx = 0
    /\ best_recovery_hit = None
    /\ recovery_seen = <<>>
    /\ b2_result = None

\* lines 39-62: the resources of the domain, those of the fallback domain, or
\* none; get_embedder raises when the embedding model fails to load
B2Load ==
    /\ b2_pc = "load"
    /\ \E resources \in {"domain", "fallback", "unavailable", "raise"} :
        CASE resources = "raise" ->
                /\ b2_result' = Some(Bot2Raised)
                /\ b2_pc' = "done"
                /\ audit' = audit
          [] resources = "unavailable" ->
                /\ b2_result' = Some(Bot2Returned(Bot2UnavailableMessage, 0, FALSE))
                /\ b2_pc' = "done"
                /\ audit' = Append(audit, AuditRecord("RETRIEVAL_QUALITY", "BOT-2"))
          [] OTHER ->
                /\ b2_result' = b2_result
                /\ b2_pc' = "search"
                /\ audit' = audit
    /\ UNCHANGED <<b2_category, valid_hits, best_hit, max_similarity, dom_idx,
                   best_recovery_hit, recovery_seen>>
    /\ UNCHANGED Bot2Untouched

\* the handler of line 250
B2Error ==
    /\ b2_result' = Some(Bot2Returned(Bot2ErrorMessage, 0, FALSE))
    /\ b2_pc' = "done"
    /\ audit' = Append(audit, AuditRecord("ERROR", "BOT-2"))

\* lines 64-144: search, boost, sort, best hit
B2Search ==
    /\ b2_pc = "search"
    /\ \/ /\ B2Error
          /\ UNCHANGED <<valid_hits, best_hit, max_similarity>>
       \/ \E hits \in SearchHits(b2_category) :
            /\ valid_hits' = SortHits(hits)
            /\ IF hits = <<>>
               THEN /\ b2_result' = Some(Bot2Returned(Bot2NoHitsMessage, 0, FALSE))
                    /\ b2_pc' = "done"
                    /\ audit' = audit
                    /\ UNCHANGED <<best_hit, max_similarity>>
               ELSE /\ best_hit' = Some(valid_hits'[1])
                    /\ max_similarity' = valid_hits'[1].similarity
                    /\ audit' = Append(audit, AuditRecord("RETRIEVAL_QUALITY", "BOT-2"))
                    /\ b2_pc' = "threshold"
                    /\ b2_result' = b2_result
    /\ UNCHANGED <<b2_category, dom_idx, best_recovery_hit, recovery_seen>>
    /\ UNCHANGED Bot2Untouched

\* line 149: the best hit is below the minimum
BelowMinimum(similarity) == similarity < BOT2_MIN_SIMILARITY

\* line 162: the recovery pass is run
RecoveryApplies(category) ==
    category # None /\ category[1] # "" /\ category[1] # "Cross-Domain Queries"

\* lines 227-235: the rejection below the minimum
B2Reject ==
    /\ b2_result' = Some(Bot2Returned(Bot2LowMessage, max_similarity, FALSE))
    /\ b2_pc' = "done"
    /\ audit' = Append(audit, AuditRecord("ANSWER_REJECTION", "BOT-2"))

\* lines 149-170 and 237-248: the threshold test on the best hit
B2Threshold ==
    /\ b2_pc = "threshold"
    /\ IF BelowMinimum(max_similarity)
       THEN IF RecoveryApplies(b2_category)
            THEN /\ b2_pc' = "recovery"
                 /\ dom_idx' = 1
                 /\ UNCHANGED <<b2_result, audit>>
            ELSE /\ B2Reject
                 /\ dom_idx' = dom_idx
       ELSE /\ b2_result' =
                  Some(Bot2Returned(best_hit[1].answer, max_similarity,
                                    max_similarity >= BOT2_SIMILARITY_THRESHOLD))
            /\ b2_pc' = "done"
            /\ audit' = Append(audit, AuditRecord("ANSWER_GENERATION", "BOT-2"))
            /\ dom_idx' = dom_idx
    /\ UNCHANGED <<b2_category, valid_hits, best_hit, max_similarity,
                   best_recovery_hit, recovery_seen>>
    /\ UNCHANGED Bot2Untouched

\* line 195 with >= in place of >
RecoveryAccepts_or_equal(sim, current_max) ==
    sim >= current_max /\ sim >= BOT2_MIN_SIMILARITY

\* line 195 without the test against the minimum
RecoveryAccepts_no_minimum(sim, current_max) == sim > current_max

\* line 195: the candidate of another domain replaces the best so far
RecoveryAccepts(sim, current_max) ==
    sim > current_max /\ sim >= BOT2_MIN_SIMILARITY

\* lines 172-207: one turn of the loop over ALL_DOMAINS
B2RecoveryStep ==
    /\ b2_pc = "recovery"
    /\ dom_idx <= Len(ALL_DOMAINS)
    /\ IF ALL_DOMAINS[dom_idx] = b2_category[1]
       THEN \* line 173: the domain already searched
            /\ dom_idx' = dom_idx + 1
            /\ UNCHANGED <<b2_pc, b2_result, audit, best_recovery_hit, max_similarity,
                           recovery_seen>>
       ELSE \/ \* line 177: no index for the domain, or no entry returned
               /\ dom_idx' = dom_idx + 1
               /\ UNCHANGED <<b2_pc, b2_result, audit, best_recovery_hit,
                              max_similarity, recovery_seen>>
            \/ \* the search raises
               /\ B2Error
               /\ UNCHANGED <<dom_idx, best_recovery_hit, max_similarity,
                              recovery_seen>>
            \/ \E sim \in RecoverySimilarities, a \in AnswerTexts :
               /\ dom_idx' = dom_idx + 1
               /\ recovery_seen' =
                     IF sim >= BOT2_MIN_SIMILARITY
                     THEN Append(recovery_seen,
                                 [domain |-> ALL_DOMAINS[dom_idx], similarity |-> sim])
                     ELSE recovery_seen
               /\ IF RecoveryAccepts(sim, max_similarity)
                  THEN /\ best_recovery_hit' =
                             Some([answer |-> a, domain |-> ALL_DOMAINS[dom_idx],
                                   similarity |-> sim])
                       /\ max_similarity' = sim
                  ELSE UNCHANGED <<best_recovery_hit, max_similarity>>
               /\ UNCHANGED <<b2_pc, b2_result, audit>>
    /\ UNCHANGED <<b2_category, valid_hits, best_hit>>
    /\ UNCHANGED Bot2Untouched

\* lines 209-235: after the loop
B2RecoveryEnd ==
    /\ b2_pc = "recovery"
    /\ dom_idx > Len(ALL_DOMAINS)
    /\ IF best_recovery_hit # None
       THEN /\ b2_result' = Some(Bot2Returned(best_recovery_hit[1].answer,
                                              best_recovery_hit[1].similarity, TRUE))
            /\ b2_pc' = "done"
            /\ audit' = Append(audit, AuditRecord("RETRIEVAL_QUALITY", "BOT-2-RECOVERY"))
       ELSE B2Reject
    /\ UNCHANGED <<b2_category, valid_hits, best_hit, max_similarity, dom_idx,
                   best_recovery_hit, recovery_seen>>
    /\ UNCHANGED Bot2Untouched

\* no invocation of handle_query is under way
HandleIdle ==
    /\ pc = "idle"
    /\ query = <<>>
    /\ ctx = create_context(query)
    /\ oos_bound = FALSE
    /\ routed_to_bot = None
    /\ execution_order = <<>>
    /\ bot_idx = 0
    /\ response = None
    /\ bot_used_final = None
    /\ answer_confidence = None
    /\ pending = None
    /\ result = [kind |-> "running", value |-> ""]
    /\ calls = <<>>
    /\ audit = <<>>
    /\ unresolved_file = <<>>
    /\ stats_file = [k \in {} |-> 0]

Bot2Init ==
    /\ HandleIdle
    /\ Bot3Idle
    /\ ManagerIdle
    /\ StatsIdle
    /\ IndexIdle
    /\ PromotionIdle
    /\ SupportIdle
    /\ \E category \in Bot2Categories : Bot2Entered(category)

Bot2Next ==
    \/ B2Load
    \/ B2Search
    \/ B2Threshold
    \/ B2RecoveryStep
    \/ B2RecoveryEnd

Bot2Spec == Bot2Init /\ [][Bot2Next]_vars

\* ------------------------------------------------------------------------
\* bots/bot3_rag.py: bot3_answer, step by step, with
\* HybridRetriever.build_hybrid_context and retrieve_context
\* ------------------------------------------------------------------------
BOT3_MIN_CONFIDENCE == 65

\* L2 distances of the best retrieved chunk (hundredths)
Distances == {0, 50, 200}

\* line 294: max_confidence = 1 / (1 + max_distance), in hundredths
RetrievalConfidence(d) == (100 * 100) \div (100 + d)

\* the words of the queries handed to bot3_answer
Bot3Vocabulary ==
    { <<"f", "e", "e">>,
      <<"n", "e", "w", "s">>,
      <<"c", "o", "m", "p", "a", "r", "e">>,
      <<"h", "e", "l", "l", "o">> }

Bot3Queries == { Join(ws) : ws \in WordSequences(Bot3Vocabulary) }

\* contexts and answers
NoLocalInformation == "No local information found."
LocalError == "Error accessing local database."
LocalChunks == "[Local Source: ...] <text of the retrieved chunks>"
NoWebInformation == "No web information found."
WebResults == "<text of the web results>"
RawAnswer == "<text the generator returned, not parseable>"
NotAvailableMessage == "Information not available at the moment."
ExtractedInfo == "**Extracted Info:** <text of the best chunk> _Source: ..._"

\* bot3_rag.py lines 544-552: the fallback of generate_answer_from_context
\* for n retrieved chunks
FallbackAnswer(n) == IF n > 0 THEN ExtractedInfo ELSE NotAvailableMessage

\* bot3_rag.py line 434: retrieved_chunks=[]
PassedChunks == 0

Bot3Returned(answer, confidence, confident) ==
    [kind |-> "returned", answer |-> answer, confidence |-> confidence,
     confident |-> confident]

Bot3Raised == [kind |-> "raised", answer |-> "", confidence |-> 0, confident |-> FALSE]

\* what is not touched by bot3_answer
Bot3Untouched ==
    <<pc, query, ctx, oos_bound, routed_to_bot, execution_order, bot_idx,
      response, bot_used_final, answer_confidence, pending, result, calls,
      unresolved_file, stats_file, bot2_vars, manager_vars, stats_vars,
      index_vars, promotion_vars, support_vars>>

\* bot3_answer(query, history, query_id) is entered
Bot3Entered(q) ==
    /\ b3_pc = "route"
    /\ b3_query = q
    /\ b3_route = None
    /\ b3_chunks = 0
    /\ b3_conf = None
    /\ local_context = ""
    /\ web_context = ""
    /\ ollama_calls = 0
    /\ b3_result = None

\* bot3_rag.py lines 377-382 and hybrid_retriever.py line 175: the history is
\* cut (raises for a history that is not a list) and the query is routed
B3Route ==
    /\ b3_pc = "route"
    /\ \/ /\ b3_result' = Some(Bot3Raised)
          /\ b3_pc' = "done"
          /\ b3_route' = b3_route
       \/ /\ b3_route' = Some(route_query(b3_query))
          /\ b3_pc' = IF b3_route'[1] \in {"local", "hybrid"} THEN "retrieve" ELSE "web"
          /\ b3_result' = b3_result
    /\ UNCHANGED <<b3_query, b3_chunks, b3_conf, local_context, web_context,
                   ollama_calls, audit>>
    /\ UNCHANGED Bot3Untouched

\* hybrid_retriever.py lines 191-204 with retrieve_context (bot3_rag.py
\* lines 223-326)
B3Retrieve ==
    /\ b3_pc = "retrieve"
    /\ \/ \* get_bot3_resources or get_embedder raises: caught at line 202
          /\ local_context' = LocalError
          /\ UNCHANGED <<b3_chunks, b3_conf, audit>>
       \/ \* no index, empty metadata, or no valid result: ([], 0.0)
          /\ local_context' = NoLocalInformation
          /\ b3_chunks' = 0
          /\ b3_conf' = Some(0)
          /\ audit' = audit
       \/ \* the search raises inside retrieve_context: ([], 0.0)
          /\ local_context' = NoLocalInformation
          /\ b3_chunks' = 0
          /\ b3_conf' = Some(0)
          /\ audit' = Append(audit, AuditRecord("ERROR", "BOT-3"))
       \/ \E d \in Distances, n \in 1..2 :
          /\ local_context' = LocalChunks
          /\ b3_chunks' = n
          /\ b3_conf' = Some(RetrievalConfidence(d))
          /\ audit' = Append(audit, AuditRecord("RETRIEVAL_QUALITY", "BOT-3"))
    /\ b3_pc' = IF b3_route[1] = "hybrid" THEN "web" ELSE "check"
    /\ UNCHANGED <<b3_query, b3_route, web_context, ollama_calls, b3_result>>
    /\ UNCHANGED Bot3Untouched

\* hybrid_retriever.py lines 206-209
B3Web ==
    /\ b3_pc = "web"
    /\ web_context' \in {WebResults, NoWebInformation}
    /\ b3_pc' = "check"
    /\ UNCHANGED <<b3_query, b3_route, b3_chunks, b3_conf, local_context,
                   ollama_calls, b3_result, audit>>
    /\ UNCHANGED Bot3Untouched

\* hybrid_retriever.py lines 212-217: the context handed back
Context(route, local, web) ==
    IF route = "local" THEN local
    ELSE IF route = "web" THEN web
    ELSE "=== LOCAL COLLEGE KNOWLEDGE === ... === WEB KNOWLEDGE === ..."

\* bot3_rag.py lines 398-400: the answer is rejected before generation
Rejects(route, context) ==
    /\ context = "" \/ (context = NoLocalInformation /\ route = "local")
    /\ route = "local"

\* bot3_rag.py lines 398-415
B3Check ==
    /\ b3_pc = "check"
    /\ IF Rejects(b3_route[1], Context(b3_route[1], local_context, web_context))
       THEN /\ b3_result' = Some(Bot3Returned(Bot3NoInfoMessage, 0, FALSE))
            /\ audit' = Append(audit, AuditRecord("ANSWER_REJECTION", "BOT-3"))
            /\ b3_pc' = "done"
       ELSE /\ b3_pc' = "generate"
            /\ UNCHANGED <<b3_result, audit>>
    /\ UNCHANGED <<b3_query, b3_route, b3_chunks, b3_conf, local_context,
                   web_context, ollama_calls>>
    /\ UNCHANGED Bot3Untouched

\* bot3_rag.py lines 417-465 with generate_answer_from_context (lines 469-552)
B3Generate ==
    /\ b3_pc = "generate"
    /\ LET final_confidence == IF b3_route[1] = "local" THEN 80 ELSE 90
       IN  \/ \* ollama is not installed
              /\ ollama_calls' = ollama_calls
              /\ b3_result' = Some(Bot3Returned(FallbackAnswer(PassedChunks),
                                                final_confidence, TRUE))
              /\ audit' = Append(audit, AuditRecord("ANSWER_GENERATION", "BOT-3"))
           \/ \E outcome \in {"json", "raw", "failed"} :
              /\ ollama_calls' = ollama_calls + 1
              /\ b3_result' =
                    Some(Bot3Returned(IF outcome = "json" THEN RagAnswer
                                      ELSE IF outcome = "raw" THEN RawAnswer
                                      ELSE FallbackAnswer(PassedChunks),
                                      final_confidence, TRUE))
              /\ audit' = Append(audit, AuditRecord("ANSWER_GENERATION", "BOT-3"))
           \/ \* an exception after the generator was called (line 456)
              /\ ollama_calls' = ollama_calls + 1
              /\ b3_result' = Some(Bot3Returned(Bot3ErrorMessage, 0, FALSE))
              /\ audit' = Append(audit, AuditRecord("ERROR", "BOT-3"))
    /\ b3_pc' = "done"
    /\ UNCHANGED <<b3_query, b3_route, b3_chunks, b3_conf, local_context,
                   web_context>>
    /\ UNCHANGED Bot3Untouched

Bot3Init ==
    /\ HandleIdle
    /\ Bot2Idle
    /\ ManagerIdle
    /\ StatsIdle
    /\ IndexIdle
    /\ PromotionIdle
    /\ SupportIdle
    /\ \E q \in Bot3Queries : Bot3Entered(q)

Bot3Next ==
    \/ B3Route
    \/ B3Retrieve
    \/ B3Web
    \/ B3Check
    \/ B3Generate

Bot3Spec == Bot3Init /\ [][Bot3Next]_vars

\* ------------------------------------------------------------------------
\* core/stats_manager.py: concurrent calls of increment_query_count
\* ------------------------------------------------------------------------
\* the arguments of the threads
StatsQueries ==
    { <<"f", "e", "e">>, <<"F", "e", "e">>, <<" ", "f", "e", "e", " ">>,
      <<"e", "x", "a", "m">>, <<"h", "i">> }

\* lines 72-74: strip, then upper-case the first character
formatted_query(q) ==
    LET s == Strip(q) IN IF s = <<>> THEN s ELSE <<UpperChar(s[1])>> \o Tail(s)

\* line 55: the call returns without counting
NotCounted(q) == q = <<>> \/ Len(Strip(q)) < 3

\* the stats file left by earlier queries
PriorStats == {EmptyStats, [k \in {<<"F", "e", "e">>} |-> 1]}

\* lines 24-35: a missing or empty file and a file json.loads rejects all
\* give {}
_load_stats(file, io) == IF io = "closed" THEN file ELSE EmptyStats

\* what is not touched by StatsManager
StatsUntouched ==
    <<pc, query, ctx, oos_bound, routed_to_bot, execution_order, bot_idx,
      response, bot_used_final, answer_confidence, pending, result, calls,
      audit, unresolved_file, bot2_vars, bot3_vars, manager_vars, index_vars,
      promotion_vars, support_vars>>

StatsInit ==
    /\ pc = "idle"
    /\ query = <<>>
    /\ ctx = create_context(query)
    /\ oos_bound = FALSE
    /\ routed_to_bot = None
    /\ execution_order = <<>>
    /\ bot_idx = 0
    /\ response = None
    /\ bot_used_final = None
    /\ answer_confidence = None
    /\ pending = None
    /\ result = [kind |-> "running", value |-> ""]
    /\ calls = <<>>
    /\ audit = <<>>
    /\ unresolved_file = <<>>
    /\ Bot2Idle
    /\ Bot3Idle
    /\ ManagerIdle
    /\ IndexIdle
    /\ PromotionIdle
    /\ SupportIdle
    /\ stats_file \in PriorStats
    /\ stats_before = stats_file
    /\ stats_io = "closed"
    /\ FILE_LOCK = None
    /\ st_pc = [t \in Threads |-> "call"]
    /\ st_query \in [Threads -> StatsQueries]
    /\ st_stats = [t \in Threads |-> EmptyStats]

\* lines 55-74
StEnter(t) ==
    /\ st_pc[t] = "call"
    /\ st_pc' = [st_pc EXCEPT ![t] = IF NotCounted(st_query[t]) THEN "done" ELSE "lock"]
    /\ UNCHANGED <<st_query, st_stats, FILE_LOCK, stats_io, stats_before, stats_file>>
    /\ UNCHANGED StatsUntouched

\* a lock that any thread may take at any time
LockFree_unlocked(lock) == TRUE

\* threading.Lock.acquire goes through only when no thread holds the lock
LockFree(lock) == lock = None

\* line 76: with FILE_LOCK
StAcquire(t) ==
    /\ st_pc[t] = "lock"
    /\ LockFree(FILE_LOCK)
    /\ FILE_LOCK' = Some(t)
    /\ st_pc' = [st_pc EXCEPT ![t] = "load"]
    /\ UNCHANGED <<st_query, st_stats, stats_io, stats_before, stats_file>>
    /\ UNCHANGED StatsUntouched

\* lines 77-79: load, then stats[formatted_query] = current_count + 1
StLoad(t) ==
    /\ st_pc[t] = "load"
    /\ LET stats == _load_stats(stats_file, stats_io)
           key == formatted_query(st_query[t])
       IN  st_stats' = [st_stats EXCEPT ![t] = Put(stats, key, Get(stats, key, 0) + 1)]
    /\ st_pc' = [st_pc EXCEPT ![t] = "open"]
    /\ UNCHANGED <<st_query, FILE_LOCK, stats_io, stats_before, stats_file>>
    /\ UNCHANGED StatsUntouched

\* line 44: open(STATS_FILE, "w") empties the file
StOpen(t) ==
    /\ st_pc[t] = "open"
    /\ stats_file' = EmptyStats
    /\ stats_io' = "truncated"
    /\ st_pc' = [st_pc EXCEPT ![t] = "dump"]
    /\ UNCHANGED <<st_query, st_stats, FILE_LOCK, stats_before>>
    /\ UNCHANGED StatsUntouched

\* line 45: json.dump writes the document piece by piece
StDump(t) ==
    /\ st_pc[t] = "dump"
    /\ stats_io' = "partial"
    /\ st_pc' = [st_pc EXCEPT ![t] = "close"]
    /\ UNCHANGED <<st_query, st_stats, FILE_LOCK, stats_before, stats_file>>
    /\ UNCHANGED StatsUntouched

\* the end of the with statement of line 44: the document is complete
StClose(t) ==
    /\ st_pc[t] = "close"
    /\ stats_file' = st_stats[t]
    /\ stats_io' = "closed"
    /\ st_pc' = [st_pc EXCEPT ![t] = "release"]
    /\ UNCHANGED <<st_query, st_stats, FILE_LOCK, stats_before>>
    /\ UNCHANGED StatsUntouched

\* the end of the with statement of line 76
StRelease(t) ==
    /\ st_pc[t] = "release"
    /\ FILE_LOCK' = None
    /\ st_pc' = [st_pc EXCEPT ![t] = "done"]
    /\ UNCHANGED <<st_query, st_stats, stats_io, stats_before, stats_file>>
    /\ UNCHANGED StatsUntouched

StatsNext ==
    \E t \in Threads :
        \/ StEnter(t)
        \/ StAcquire(t)
        \/ StLoad(t)
        \/ StOpen(t)
        \/ StDump(t)
        \/ StClose(t)
        \/ StRelease(t)

StatsSpec == StatsInit /\ [][StatsNext]_vars

\* ------------------------------------------------------------------------
\* core/model_manager.py: get_domain_qa_resources against
\* rebuild_domain_indices, for one domain's directory
\* ------------------------------------------------------------------------
\* os.path.exists of a file of the directory
Exists(file) == file # "absent"

\* a file that faiss.read_index or pickle.load accepts
Complete(file) == file \in {"old", "new"}

\* what is not touched by ModelManager
IndexUntouched ==
    <<handle_vars, bot2_vars, bot3_vars, manager_vars, stats_vars, promotion_vars,
      support_vars>>

\* the directory holds the pair of an earlier build, or nothing yet; the
\* cache of the process is empty or holds the earlier pair; a rebuild from
\* the current dataset is about to run
IndexInit ==
    /\ HandleIdle
    /\ Bot2Idle
    /\ Bot3Idle
    /\ ManagerIdle
    /\ StatsIdle
    /\ PromotionIdle
    /\ SupportIdle
    /\ ix_pc = [p \in Procs |-> IF p = "reader" THEN "start" ELSE "rb_check"]
    /\ \E present \in BOOLEAN :
          /\ domain_dir = present
          /\ index_file = IF present THEN "old" ELSE "absent"
          /\ meta_file = IF present THEN "old" ELSE "absent"
          /\ _domain_resources \in
                IF present THEN {None, Some(<<"old", "old">>)} ELSE {None}
    /\ r_index = "none"
    /\ r_qa_pairs = "empty"
    /\ ix_result = None

\* where a process goes on after rebuild_domain_indices returned
AfterRebuild(p) == IF p = "reader" THEN "check2" ELSE "done"

\* lines 229-230: os.path.exists(base_dir)
RbCheck(p) ==
    /\ ix_pc[p] = "rb_check"
    /\ ix_pc' = [ix_pc EXCEPT ![p] = IF domain_dir THEN "rb_rmtree" ELSE "rb_mkdir"]
    /\ UNCHANGED <<domain_dir, index_file, meta_file, r_index, r_qa_pairs,
                   ix_result, _domain_resources>>
    /\ UNCHANGED IndexUntouched

\* line 230: shutil.rmtree unlinks the files one by one, then the directory;
\* on a directory that is gone it raises, and line 243 ends the rebuild
RbRmtree(p) ==
    /\ ix_pc[p] = "rb_rmtree"
    /\ IF ~domain_dir
       THEN /\ ix_pc' = [ix_pc EXCEPT ![p] = AfterRebuild(p)]
            /\ UNCHANGED <<domain_dir, index_file, meta_file>>
       ELSE IF Exists(index_file) \/ Exists(meta_file)
       THEN /\ \/ Exists(index_file) /\ index_file' = "absent"
                                     /\ meta_file' = meta_file
               \/ Exists(meta_file) /\ meta_file' = "absent"
                                    /\ index_file' = index_file
            /\ UNCHANGED <<ix_pc, domain_dir>>
       ELSE /\ domain_dir' = FALSE
            /\ ix_pc' = [ix_pc EXCEPT ![p] = "rb_mkdir"]
            /\ UNCHANGED <<index_file, meta_file>>
    /\ UNCHANGED <<r_index, r_qa_pairs, ix_result, _domain_resources>>
    /\ UNCHANGED IndexUntouched

\* line 231: os.makedirs(base_dir, exist_ok=True)
RbMkdir(p) ==
    /\ ix_pc[p] = "rb_mkdir"
    /\ domain_dir' = TRUE
    /\ ix_pc' = [ix_pc EXCEPT ![p] = "rb_index"]
    /\ UNCHANGED <<index_file, meta_file, r_index, r_qa_pairs, ix_result,
                   _domain_resources>>
    /\ UNCHANGED IndexUntouched

\* line 233: faiss.write_index creates the file; without the directory it
\* raises, and line 243 ends the rebuild
RbIndexOpen(p) ==
    /\ ix_pc[p] = "rb_index"
    /\ IF domain_dir
       THEN /\ index_file' = "partial"
            /\ ix_pc' = [ix_pc EXCEPT ![p] = "rb_index_end"]
       ELSE /\ index_file' = index_file
            /\ ix_pc' = [ix_pc EXCEPT ![p] = AfterRebuild(p)]
    /\ UNCHANGED <<domain_dir, meta_file, r_index, r_qa_pairs, ix_result,
                   _domain_resources>>
    /\ UNCHANGED IndexUntouched

\* line 233: the index is written out; a file unlinked meanwhile stays gone
RbIndexEnd(p) ==
    /\ ix_pc[p] = "rb_index_end"
    /\ index_file' = IF Exists(index_file) THEN "new" ELSE "absent"
    /\ ix_pc' = [ix_pc EXCEPT ![p] = "rb_meta"]
    /\ UNCHANGED <<domain_dir, meta_file, r_index, r_qa_pairs, ix_result,
                   _domain_resources>>
    /\ UNCHANGED IndexUntouched

\* line 234: open(..., "wb") creates the metadata file; without the directory
\* it raises, and line 243 ends the rebuild
RbMetaOpen(p) ==
    /\ ix_pc[p] = "rb_meta"
    /\ IF domain_dir
       THEN /\ meta_file' = "partial"
            /\ ix_pc' = [ix_pc EXCEPT ![p] = "rb_meta_end"]
       ELSE /\ meta_file' = meta_file
            /\ ix_pc' = [ix_pc EXCEPT ![p] = AfterRebuild(p)]
    /\ UNCHANGED <<domain_dir, index_file, r_index, r_qa_pairs, ix_result,
                   _domain_resources>>
    /\ UNCHANGED IndexUntouched

\* line 235: pickle.dump and the end of the with statement
RbMetaEnd(p) ==
    /\ ix_pc[p] = "rb_meta_end"
    /\ meta_file' = IF Exists(meta_file) THEN "new" ELSE "absent"
    /\ ix_pc' = [ix_pc EXCEPT ![p] = AfterRebuild(p)]
    /\ UNCHANGED <<domain_dir, index_file, r_index, r_qa_pairs, ix_result,
                   _domain_resources>>
    /\ UNCHANGED IndexUntouched

\* lines 103-104: the cached pair is returned
RdLookup ==
    /\ ix_pc["reader"] = "start"
    /\ IF _domain_resources # None
       THEN /\ ix_result' = _domain_resources
            /\ ix_pc' = [ix_pc EXCEPT !["reader"] = "done"]
       ELSE /\ ix_result' = ix_result
            /\ ix_pc' = [ix_pc EXCEPT !["reader"] = "check1"]
    /\ UNCHANGED <<domain_dir, index_file, meta_file, r_index, r_qa_pairs,
                   _domain_resources>>
    /\ UNCHANGED IndexUntouched

\* lines 113-115: a missing file makes the reader rebuild by itself
RdCheck1 ==
    /\ ix_pc["reader"] = "check1"
    /\ ix_pc' = [ix_pc EXCEPT !["reader"] =
                    IF Exists(index_file) /\ Exists(meta_file)
                    THEN "check2" ELSE "rb_check"]
    /\ UNCHANGED <<domain_dir, index_file, meta_file, r_index, r_qa_pairs,
                   ix_result, _domain_resources>>
    /\ UNCHANGED IndexUntouched

\* lines 122 and 141-143
RdCheck2 ==
    /\ ix_pc["reader"] = "check2"
    /\ IF Exists(index_file) /\ Exists(meta_file)
       THEN /\ ix_result' = ix_result
            /\ ix_pc' = [ix_pc EXCEPT !["reader"] = "read_index"]
       ELSE /\ ix_result' = Some(<<"none", "empty">>)
            /\ ix_pc' = [ix_pc EXCEPT !["reader"] = "done"]
    /\ UNCHANGED <<domain_dir, index_file, meta_file, r_index, r_qa_pairs,
                   _domain_resources>>
    /\ UNCHANGED IndexUntouched

\* line 124: faiss.read_index; on a file that is gone or not yet written out
\* it raises, and lines 137-140 keep index = None, qa_pairs = []
RdReadIndex ==
    /\ ix_pc["reader"] = "read_index"
    /\ IF Complete(index_file)
       THEN /\ r_index' = index_file
            /\ ix_pc' = [ix_pc EXCEPT !["reader"] = "load_meta"]
       ELSE /\ r_index' = "none"
            /\ ix_pc' = [ix_pc EXCEPT !["reader"] = "cache"]
    /\ UNCHANGED <<domain_dir, index_file, meta_file, r_qa_pairs, ix_result,
                   _domain_resources>>
    /\ UNCHANGED IndexUntouched

\* lines 125-126: pickle.load; when it raises, lines 137-140 keep the index
\* already read and qa_pairs = []
RdLoadMeta ==
    /\ ix_pc["reader"] = "load_meta"
    /\ r_qa_pairs' = IF Complete(meta_file) THEN meta_file ELSE "empty"
    /\ ix_pc' = [ix_pc EXCEPT !["reader"] = "cache"]
    /\ UNCHANGED <<domain_dir, index_file, meta_file, r_index, ix_result,
                   _domain_resources>>
    /\ UNCHANGED IndexUntouched

\* lines 145-146
RdCache ==
    /\ ix_pc["reader"] = "cache"
    /\ _domain_resources' = Some(<<r_index, r_qa_pairs>>)
    /\ ix_result' = Some(<<r_index, r_qa_pairs>>)
    /\ ix_pc' = [ix_pc EXCEPT !["reader"] = "done"]
    /\ UNCHANGED <<domain_dir, index_file, meta_file, r_index, r_qa_pairs>>
    /\ UNCHANGED IndexUntouched

IndexNext ==
    \/ \E p \in Procs :
          \/ RbCheck(p)
          \/ RbRmtree(p)
          \/ RbMkdir(p)
          \/ RbIndexOpen(p)
          \/ RbIndexEnd(p)
          \/ RbMetaOpen(p)
          \/ RbMetaEnd(p)
    \/ RdLookup
    \/ RdCheck1
    \/ RdCheck2
    \/ RdReadIndex
    \/ RdLoadMeta
    \/ RdCache

IndexSpec == IndexInit /\ [][IndexNext]_vars

\* ------------------------------------------------------------------------
\* knowledge_updater.reevaluate_unresolved_queries, then
\* ModelManager.rebuild_domain_indices, then bot2_answer
\* ------------------------------------------------------------------------
MaxUnresolved == 2

\* knowledge_updater.py line 191, in hundredths
AUTO_RESOLVE_THRESHOLD == 75

\* model_manager.py lines 79-87 and 174-182
DOMAIN_MAP ==
    [c \in Categories |->
        IF c = "Admissions & Registrations" THEN "admissions"
        ELSE IF c = "Financial Matters" THEN "financial"
        ELSE IF c = "Academic Affairs" THEN "academic"
        ELSE IF c = "Student Services" THEN "student_services"
        ELSE IF c = "Campus Life" THEN "campus_life"
        ELSE IF c = "General Information" THEN "general"
        ELSE "cross_domain"]

Folders == {DOMAIN_MAP[c] : c \in Categories}

\* line 195: the folder rebuild_domain_indices writes a group to
RebuildFolder(domain) ==
    IF domain \in DOMAIN DOMAIN_MAP THEN DOMAIN_MAP[domain] ELSE "general"

\* lines 90-101: the folder get_domain_qa_resources reads for a category; no
\* label of the model differs from a key of DOMAIN_MAP by case only
LookupFolder(domain_name) ==
    IF domain_name # None /\ domain_name[1] \in DOMAIN DOMAIN_MAP
    THEN DOMAIN_MAP[domain_name[1]]
    ELSE "general"

\* the categories handle_query passes to log_unresolved_query
LoggedCategories == Categories \cup {"General"}

\* line 190: groupby visits the domain labels in sorted order
DomainOrder ==
    << "Academic Affairs", "Admissions & Registrations", "Campus Life",
       "Cross-Domain Queries", "Financial Matters", "General",
       "General Information", "Student Services" >>

Row(domain, question, answer) ==
    [domain |-> domain, question |-> question, answer |-> answer]

OfficialAnswer == "official answer"
ChunkText == "text of the best chunk"

\* data/qa_dataset.csv as shipped: a row for every category
BaseQuestion(c) == <<c>>

RECURSIVE BaseRows(_)
BaseRows(i) ==
    IF i = 0 THEN <<>>
    ELSE Append(BaseRows(i - 1),
                Row(ALL_DOMAINS[i], BaseQuestion(ALL_DOMAINS[i]), OfficialAnswer))

BaseDataset == BaseRows(Len(ALL_DOMAINS))

\* lines 190 and 200-202: the rows of one group
RECURSIVE GroupRows(_, _)
GroupRows(dataset, domain) ==
    IF dataset = <<>> THEN <<>>
    ELSE IF Head(dataset).domain = domain
         THEN <<Head(dataset)>> \o GroupRows(Tail(dataset), domain)
         ELSE GroupRows(Tail(dataset), domain)

\* lines 194-238: group after group, the target folder is removed and
\* written with the rows of the group
RECURSIVE RebuildFrom(_, _, _)
RebuildFrom(i, folders, dataset) ==
    IF i > Len(DomainOrder) THEN folders
    ELSE LET group == GroupRows(dataset, DomainOrder[i])
         IN  RebuildFrom(i + 1,
                 IF group = <<>> THEN folders
                 ELSE [folders EXCEPT ![RebuildFolder(DomainOrder[i])] = group],
                 dataset)

rebuild_domain_indices(folders, dataset) == RebuildFrom(1, folders, dataset)

EmptyFolders == [f \in Folders |-> <<>>]

\* the queries of the unresolved file
UnresolvedQueries ==
    { PriorQuery, <<"f", "e", "e", " ", "f", "e", "e">>,
      <<"e", "x", "a", "m", " ", "f", "e", "e">> }

\* the unresolved files log_unresolved_query can leave: no query twice
UnresolvedFiles ==
    { file \in UNION { [1..n -> { UnresolvedEntry(q, c, 50, 0) :
                                    q \in UnresolvedQueries, c \in LoggedCategories }]
                        : n \in 1..MaxUnresolved } :
        \A i, j \in DOMAIN file : file[i].query = file[j].query => i = j }

\* line 187: the confidence of the nearest chunk of the document index
ChunkConfidences == {70, 75}

\* lines 178-208: the rows promoted for the confidences found
RECURSIVE PromotedRows(_, _)
PromotedRows(unresolved, confidence) ==
    IF unresolved = <<>> THEN <<>>
    ELSE LET n == Len(unresolved)
             front == PromotedRows(SubSeq(unresolved, 1, n - 1), confidence)
         IN  IF confidence[n] >= AUTO_RESOLVE_THRESHOLD
             THEN Append(front, Row(unresolved[n].category, unresolved[n].query,
                                    ChunkText))
             ELSE front

\* lines 207-208: the entries that stay unresolved
RECURSIVE RemainingQueries(_, _)
RemainingQueries(unresolved, confidence) ==
    IF unresolved = <<>> THEN <<>>
    ELSE LET n == Len(unresolved)
             front == RemainingQueries(SubSeq(unresolved, 1, n - 1), confidence)
         IN  IF confidence[n] >= AUTO_RESOLVE_THRESHOLD
             THEN front
             ELSE Append(front, unresolved[n])

\* lines 103-104 and 145: the rows a process searches for a folder
Resources(cache, folders, folder) ==
    IF cache[folder] # None THEN cache[folder][1] ELSE folders[folder]

\* the row of a question in a folder's metadata
Holds(rows, question) == \E i \in DOMAIN rows : rows[i].question = question

AnswerOf(rows, question) ==
    rows[CHOOSE i \in DOMAIN rows :
            /\ rows[i].question = question
            /\ \A j \in 1..(i - 1) : rows[j].question # question].answer

\* the similarity of the nearest other question of the searched folder
OtherSimilarities == {50, 65}

\* bot2_answer(question, category) over the rows it can see: an identical
\* question is at distance 0, similarity 1.0; without it the nearest other
\* question decides, and below the minimum the other domains are scanned
\* (bot2_semantic.py lines 149-223)
bot2_lookup(cache, folders, question, category, other) ==
    LET primary == Resources(cache, folders, LookupFolder(Some(category)))
        others == {dom \in {ALL_DOMAINS[i] : i \in DOMAIN ALL_DOMAINS} :
                      /\ dom # category
                      /\ Holds(Resources(cache, folders, LookupFolder(Some(dom))),
                               question)}
    IN  IF Holds(primary, question)
        THEN [answer |-> AnswerOf(primary, question), similarity |-> 100,
              confident |-> TRUE]
        ELSE IF other >= BOT2_MIN_SIMILARITY
        THEN [answer |-> OfficialAnswer, similarity |-> other,
              confident |-> other >= BOT2_SIMILARITY_THRESHOLD]
        ELSE IF category # "Cross-Domain Queries" /\ others # {}
        THEN [answer |-> AnswerOf(Resources(cache, folders,
                                   LookupFolder(Some(CHOOSE dom \in others : TRUE))),
                                   question),
              similarity |-> 100, confident |-> TRUE]
        ELSE [answer |-> "", similarity |-> other, confident |-> FALSE]

\* what is not touched by the knowledge updater
PromotionUntouched ==
    <<pc, query, ctx, oos_bound, routed_to_bot, execution_order, bot_idx,
      response, bot_used_final, answer_confidence, pending, result, calls,
      audit, stats_file, bot2_vars, bot3_vars, manager_vars, stats_vars,
      index_vars, support_vars>>

\* the dataset as shipped with the folders built from it, an unresolved file
\* left by earlier queries, and a serving process that has loaded every
\* folder already or none yet
PromotionInit ==
    /\ pc = "idle"
    /\ query = <<>>
    /\ ctx = create_context(query)
    /\ oos_bound = FALSE
    /\ routed_to_bot = None
    /\ execution_order = <<>>
    /\ bot_idx = 0
    /\ response = None
    /\ bot_used_final = None
    /\ answer_confidence = None
    /\ pending = None
    /\ result = [kind |-> "running", value |-> ""]
    /\ calls = <<>>
    /\ audit = <<>>
    /\ stats_file = EmptyStats
    /\ Bot2Idle
    /\ Bot3Idle
    /\ ManagerIdle
    /\ StatsIdle
    /\ IndexIdle
    /\ SupportIdle
    /\ unresolved_file \in UnresolvedFiles
    /\ pr_pc = "reevaluate"
    /\ qa_dataset = BaseDataset
    /\ domain_folders = rebuild_domain_indices(EmptyFolders, BaseDataset)
    /\ \E loaded \in BOOLEAN :
          resources_cache =
              [f \in Folders |-> IF loaded THEN Some(domain_folders[f]) ELSE None]
    /\ promoted = <<>>
    /\ pr_answers = <<>>

\* knowledge_updater.py lines 142-227
PrReevaluate ==
    /\ pr_pc = "reevaluate"
    /\ \E confidence \in [DOMAIN unresolved_file -> ChunkConfidences] :
          /\ promoted' = PromotedRows(unresolved_file, confidence)
          /\ qa_dataset' = qa_dataset \o promoted'
          /\ unresolved_file' = RemainingQueries(unresolved_file, confidence)
    /\ pr_pc' = "rebuild"
    /\ UNCHANGED <<domain_folders, resources_cache, pr_answers>>
    /\ UNCHANGED PromotionUntouched

\* model_manager.py lines 148-245, run on its own
PrRebuild ==
    /\ pr_pc = "rebuild"
    /\ domain_folders' = rebuild_domain_indices(domain_folders, qa_dataset)
    /\ pr_pc' = "search"
    /\ UNCHANGED <<qa_dataset, resources_cache, promoted, pr_answers, unresolved_file>>
    /\ UNCHANGED PromotionUntouched

\* bot2_answer for every promoted query with the category it was logged with
PrSearch ==
    /\ pr_pc = "search"
    /\ \E other \in OtherSimilarities :
          pr_answers' =
              [i \in DOMAIN promoted |->
                  bot2_lookup(resources_cache, domain_folders,
                              promoted[i].question, promoted[i].domain, other)]
    /\ pr_pc' = "done"
    /\ UNCHANGED <<qa_dataset, domain_folders, resources_cache, promoted,
                   unresolved_file>>
    /\ UNCHANGED PromotionUntouched

PromotionNext == PrReevaluate \/ PrRebuild \/ PrSearch

PromotionSpec == PromotionInit /\ [][PromotionNext]_vars

\* ------------------------------------------------------------------------
\* Components behind Strategy C and the trackers, each run on its own
\* ------------------------------------------------------------------------
\* the orchestrator, the strategies under it and the index files are at rest
CoreIdle ==
    /\ HandleIdle
    /\ Bot2Idle
    /\ Bot3Idle
    /\ ManagerIdle
    /\ StatsIdle
    /\ IndexIdle
    /\ PromotionIdle

core_vars ==
    <<handle_vars, bot2_vars, bot3_vars, manager_vars, stats_vars, index_vars,
      promotion_vars>>

\* ------------------------------------------------------------------------
\* bots/hybrid_retriever.py: HybridRetriever.search_web
\* ------------------------------------------------------------------------
MaxWebCalls == 3

\* line 45: self.cache_ttl, in seconds
cache_ttl == 3600

WebQueries == {"latest news", "hackathon"}

\* seconds between two search_web calls
Elapsed == {1, 1799, 1800, 3600}

\* seconds self.tavily.search takes
SearchLatency == {0, 1}

\* what self.tavily.search does: results, an empty result list, an exception
TavilyOutcomes == {"results A", "results B", "no results", "raise"}

\* lines 91-103: the combined context of a non-empty result list
final_context(outcome) ==
    IF outcome = "results A" THEN "Source: A (url)\nContent: a\n"
    ELSE "Source: B (url)\nContent: b\n"

\* line 73 with the expiry one second late
Fresh_inclusive(now, timestamp) == now - timestamp <= cache_ttl

\* line 73: the cached entry is still valid
Fresh(now, timestamp) == now - timestamp < cache_ttl

\* del self.cache[query]
Without(cache, q) == [k \in DOMAIN cache \ {q} |-> cache[k]]

WebUntouched == <<core_vars, chunk_vars, context_vars, tracker_vars>>

WebInit ==
    /\ CoreIdle
    /\ ChunkIdle
    /\ ContextIdle
    /\ TrackerIdle
    /\ tavily \in BOOLEAN
    /\ web_cache = <<>>
    /\ web_now = 0
    /\ web_calls = 0
    /\ tavily_calls = 0
    /\ web_last = None

\* lines 64-112: one call, dt seconds after the one before
search_web(q, dt, outcome, latency) ==
    LET now == web_now + dt
        had == IF q \in DOMAIN web_cache THEN Some(web_cache[q]) ELSE None
        hit == had # None /\ Fresh(now, had[1].timestamp)
        kept == IF had # None THEN Without(web_cache, q) ELSE web_cache
        stores == tavily /\ outcome \in {"results A", "results B"}
        returned == IF hit THEN had[1].result
                    ELSE IF stores THEN final_context(outcome)
                    ELSE ""
    IN  /\ web_calls < MaxWebCalls
        /\ web_calls' = web_calls + 1
        /\ web_now' = IF hit \/ ~tavily THEN now ELSE now + latency
        /\ tavily_calls' = IF hit \/ ~tavily THEN tavily_calls ELSE tavily_calls + 1
        /\ web_cache' =
              IF hit THEN web_cache
              ELSE IF stores
              THEN Put(kept, q, [result |-> returned, timestamp |-> now + latency])
              ELSE kept
        /\ web_last' = Some([query |-> q, at |-> now, had |-> had,
                             result |-> returned,
                             consulted |-> tavily_calls' # tavily_calls,
                             raised |-> FALSE])
        /\ UNCHANGED tavily
        /\ UNCHANGED WebUntouched

WebNext ==
    \E q \in WebQueries, dt \in Elapsed, outcome \in TavilyOutcomes,
       latency \in SearchLatency :
        search_web(q, dt, outcome, latency)

WebSpec == WebInit /\ [][WebNext]_vars

\* ------------------------------------------------------------------------
\* bots/bot3_rag.py: chunk_document
\* ------------------------------------------------------------------------
MaxDocLen == 6
MaxChunkSize == 3

\* the chunks the model lets the loop append before it stops looking
MaxChunks == 5

ChunkRecord(start, end) == [start_char |-> start, end_char |-> end]

ChunkUntouched == <<core_vars, web_vars, context_vars, tracker_vars>>

\* a document and a configuration with 0 <= overlap < chunk_size
ChunkInit ==
    /\ CoreIdle
    /\ WebIdle
    /\ ContextIdle
    /\ TrackerIdle
    /\ ch_pc = "start"
    /\ ch_len \in 0..MaxDocLen
    /\ ch_size \in 1..MaxChunkSize
    /\ ch_overlap \in 0..(ch_size - 1)
    /\ ch_start = 0
    /\ ch_chunks = <<>>

\* lines 124-137: a text shorter than chunk_size is one chunk
ChStart ==
    /\ ch_pc = "start"
    /\ IF ch_len < ch_size
       THEN /\ ch_chunks' = <<ChunkRecord(0, ch_len)>>
            /\ ch_pc' = "done"
       ELSE /\ ch_chunks' = <<>>
            /\ ch_pc' = "loop"
    /\ UNCHANGED <<ch_len, ch_size, ch_overlap, ch_start>>
    /\ UNCHANGED ChunkUntouched

\* line 154: start = end - overlap
NextStart(end, overlap, len) == end - overlap

\* lines 139-156: one iteration of the while loop
ChLoop ==
    /\ ch_pc = "loop"
    /\ Len(ch_chunks) < MaxChunks
    /\ IF ch_start < ch_len
       THEN LET end == Min(ch_start + ch_size, ch_len)
                start == NextStart(end, ch_overlap, ch_len)
            IN  /\ ch_chunks' = Append(ch_chunks, ChunkRecord(ch_start, end))
                /\ ch_start' = start
                /\ ch_pc' = IF start >= ch_len THEN "done" ELSE "loop"
       ELSE /\ ch_pc' = "done"
            /\ UNCHANGED <<ch_chunks, ch_start>>
    /\ UNCHANGED <<ch_len, ch_size, ch_overlap>>
    /\ UNCHANGED ChunkUntouched

ChunkNext == ChStart \/ ChLoop

ChunkSpec == ChunkInit /\ [][ChunkNext]_vars

\* ------------------------------------------------------------------------
\* scope_check on its own, over queries that meet several of its lists
\* ------------------------------------------------------------------------
ScopeVocabulary ==
    { <<"h", "e", "l", "l", "o">>,
      <<"g", "o", "o", "d">>,
      <<"M", "o", "r", "n", "i", "n", "g", "!", " ">>,
      <<"c", "r", "i", "c", "k", "e", "t">>,
      <<"P", "y", "t", "h", "o", "n">>,
      <<"c", "o", "d", "e">>,
      <<"f", "e", "e">>,
      <<"w", "h", "a", "t">>,
      <<"j", "o", "k", "e">> }

ScopeQueries == { Join(ws) : ws \in WordSequences(ScopeVocabulary) }

\* handle_query has validated the query and is about to call scope_check
ScopeInit ==
    /\ pc = "scope"
    /\ query \in ScopeQueries
    /\ ctx = create_context(query)
    /\ oos_bound = FALSE
    /\ routed_to_bot = None
    /\ execution_order = <<>>
    /\ bot_idx = 0
    /\ response = None
    /\ bot_used_final = None
    /\ answer_confidence = None
    /\ pending = None
    /\ result = [kind |-> "running", value |-> ""]
    /\ calls = <<>>
    /\ audit = <<>>
    /\ unresolved_file = <<>>
    /\ stats_file = EmptyStats
    /\ ComponentsIdle
    /\ ManagerIdle

ScopeNext == ScopeCheck

ScopeSpec == ScopeInit /\ [][ScopeNext]_vars

\* ------------------------------------------------------------------------
\* the local context of bot3_answer: HybridRetriever.build_hybrid_context,
\* build_context_window and the call of generate_answer_from_context
\* ------------------------------------------------------------------------
MAX_CONTEXT_CHARS_PER_TURN == 500
TOP_K_BOT3 == 5

\* len(chunk['text']) of the chunks an index holds: short documents, the
\* CHUNK_SIZE of settings.py and that of build_bot3_index.py
ChunkTextLengths == {120, 400, 500}

\* len(chunk['source'])
SourceNameLengths == {12}

RetrievedChunk(text_len, source_len) == [text |-> text_len, source |-> source_len]

\* what retrieve_context can return: at most TOP_K_BOT3 chunks
RetrievedChunks ==
    UNION { [1..n -> { RetrievedChunk(t, n2) : t \in ChunkTextLengths,
                                               n2 \in SourceNameLengths }] :
            n \in 0..TOP_K_BOT3 }

RECURSIVE SumLen(_)
SumLen(lens) == IF lens = <<>> THEN 0 ELSE Head(lens) + SumLen(Tail(lens))

\* len(sep.join(parts)) from the lengths of the parts
JoinedLen(lens, sep_len) ==
    IF lens = <<>> THEN 0 ELSE SumLen(lens) + sep_len * (Len(lens) - 1)

\* a context: its length and the number of chunks in it
ContextOf(chars, included) == [chars |-> chars, included |-> included]

\* bot3_rag.py lines 331-359: "[Source: s, Chunk i]\n" + text for each chunk
\* (one-digit chunk ids), up to max_chars, joined by "\n\n---\n\n"
RECURSIVE WindowParts(_, _, _)
WindowParts(chunks, total_chars, max_chars) ==
    IF chunks = <<>> THEN <<>>
    ELSE LET chunk_text == 9 + Head(chunks).source + 8 + 1 + 2 + Head(chunks).text
         IN  IF total_chars + chunk_text > max_chars THEN <<>>
             ELSE <<chunk_text>> \o
                  WindowParts(Tail(chunks), total_chars + chunk_text, max_chars)

build_context_window(retrieved_chunks) ==
    LET max_chars == MAX_CONTEXT_CHARS_PER_TURN * TOP_K_BOT3
        context_parts == WindowParts(retrieved_chunks, 0, max_chars)
    IN  ContextOf(JoinedLen(context_parts, 7), Len(context_parts))

\* hybrid_retriever.py line 198: "[Local Source: s]\n" + text for every
\* chunk, joined by "\n\n"
JoinAllChunks(chunks) ==
    ContextOf(JoinedLen([i \in DOMAIN chunks |->
                            15 + chunks[i].source + 2 + chunks[i].text], 2),
              Len(chunks))

\* len("No local information found.")
NoLocalInformationContext == ContextOf(27, 0)

ContextUntouched == <<core_vars, web_vars, chunk_vars, tracker_vars>>

TrackerUntouched == <<core_vars, web_vars, chunk_vars, context_vars>>

\* bot3_answer is entered with a query that route_query sends to "local"
ContextInit ==
    /\ CoreIdle
    /\ WebIdle
    /\ ChunkIdle
    /\ TrackerIdle
    /\ cx_pc = "retrieve"
    /\ cx_chunks = <<>>
    /\ cx_context = None
    /\ cx_prompt = None

\* hybrid_retriever.py lines 191-200 and 212-213
CxRetrieve ==
    /\ cx_pc = "retrieve"
    /\ \E chunks \in RetrievedChunks :
        /\ cx_chunks' = chunks
        /\ cx_context' = Some(IF chunks # <<>> THEN JoinAllChunks(chunks)
                              ELSE NoLocalInformationContext)
    /\ cx_pc' = "check"
    /\ cx_prompt' = cx_prompt
    /\ UNCHANGED ContextUntouched

\* bot3_rag.py lines 398-415: no context, the answer is rejected
CxReject ==
    /\ cx_pc = "check"
    /\ cx_context = Some(NoLocalInformationContext)
    /\ cx_pc' = "done"
    /\ UNCHANGED <<cx_chunks, cx_context, cx_prompt>>
    /\ UNCHANGED ContextUntouched

\* bot3_rag.py lines 431-438: generate_answer_from_context(context=context)
CxGenerate ==
    /\ cx_pc = "check"
    /\ cx_context # Some(NoLocalInformationContext)
    /\ cx_prompt' = cx_context
    /\ cx_pc' = "done"
    /\ UNCHANGED <<cx_chunks, cx_context>>
    /\ UNCHANGED ContextUntouched

ContextNext ==
    \/ CxRetrieve
    \/ CxReject
    \/ CxGenerate

ContextSpec == ContextInit /\ [][ContextNext]_vars

\* ------------------------------------------------------------------------
\* core/query_tracker.py: log_unresolved_query in the serving process, and
\* knowledge_updater.py: reevaluate_unresolved_queries run as a script
\* ------------------------------------------------------------------------
\* most log_unresolved_query calls of the serving process
MaxLogCalls == 2

\* the queries logged, by name
TrackerQueries == {"q1", "q2", "q3"}

\* the file as earlier calls left it, and one re-evaluation about to run
TrackerInit ==
    /\ CoreIdle
    /\ WebIdle
    /\ ChunkIdle
    /\ ContextIdle
    /\ UNRESOLVED_FILE \in {<<>>, <<"q1">>}
    /\ tracker_lock = FALSE
    /\ log_query = None
    /\ log_data = <<>>
    /\ log_calls = 0
    /\ re_pc = "read"
    /\ re_unresolved = <<>>
    /\ remaining_queries = <<>>
    /\ new_qa_pairs = <<>>
    /\ qa_rows = <<>>
    /\ ever_logged = Range(UNRESOLVED_FILE)

\* query_tracker.py lines 42-50: FILE_LOCK is taken and the file is read
LogRead ==
    /\ ~tracker_lock
    /\ log_calls < MaxLogCalls
    /\ \E q \in TrackerQueries : log_query' = Some(q)
    /\ tracker_lock' = TRUE
    /\ log_data' = UNRESOLVED_FILE
    /\ log_calls' = log_calls + 1
    /\ UNCHANGED <<UNRESOLVED_FILE, re_pc, re_unresolved, remaining_queries,
                   new_qa_pairs, qa_rows, ever_logged>>
    /\ UNCHANGED TrackerUntouched

\* query_tracker.py lines 55-63: a query not in data is appended and data is
\* written to the file; FILE_LOCK is released
LogWrite ==
    /\ tracker_lock
    /\ IF log_query[1] \notin Range(log_data)
       THEN /\ UNRESOLVED_FILE' = Append(log_data, log_query[1])
            /\ ever_logged' = ever_logged \cup {log_query[1]}
       ELSE UNCHANGED <<UNRESOLVED_FILE, ever_logged>>
    /\ tracker_lock' = FALSE
    /\ log_query' = None
    /\ log_data' = <<>>
    /\ UNCHANGED <<log_calls, re_pc, re_unresolved, remaining_queries,
                   new_qa_pairs, qa_rows>>
    /\ UNCHANGED TrackerUntouched

\* knowledge_updater.py lines 149-162: the file is read, without FILE_LOCK
ReRead ==
    /\ re_pc = "read"
    /\ re_unresolved' = UNRESOLVED_FILE
    /\ re_pc' = IF UNRESOLVED_FILE = <<>> THEN "done" ELSE "evaluate"
    /\ UNCHANGED <<UNRESOLVED_FILE, tracker_lock, log_query, log_data, log_calls,
                   remaining_queries, new_qa_pairs, qa_rows, ever_logged>>
    /\ UNCHANGED TrackerUntouched

\* knowledge_updater.py lines 164-208: the resources are loaded (or the load
\* raises) and every entry is resolved or kept
ReEvaluate ==
    /\ re_pc = "evaluate"
    /\ \/ /\ re_pc' = "done"
          /\ UNCHANGED <<remaining_queries, new_qa_pairs>>
       \/ \E resolved \in SUBSET DOMAIN re_unresolved :
            /\ new_qa_pairs' = Keep(re_unresolved, resolved)
            /\ remaining_queries' =
                  Keep(re_unresolved, DOMAIN re_unresolved \ resolved)
            /\ re_pc' = "update"
    /\ UNCHANGED <<UNRESOLVED_FILE, tracker_lock, log_query, log_data, log_calls,
                   re_unresolved, qa_rows, ever_logged>>
    /\ UNCHANGED TrackerUntouched

\* knowledge_updater.py lines 210-225: the new pairs are appended to the QA
\* dataset and remaining_queries is written over the file
ReUpdate ==
    /\ re_pc = "update"
    /\ qa_rows' = qa_rows \o new_qa_pairs
    /\ UNRESOLVED_FILE' = remaining_queries
    /\ re_pc' = "done"
    /\ UNCHANGED <<tracker_lock, log_query, log_data, log_calls, re_unresolved,
                   remaining_queries, new_qa_pairs, ever_logged>>
    /\ UNCHANGED TrackerUntouched

TrackerNext ==
    \/ LogRead
    \/ LogWrite
    \/ ReRead
    \/ ReEvaluate
    \/ ReUpdate

TrackerSpec == TrackerInit /\ [][TrackerNext]_vars

\* ------------------------------------------------------------------------
\* Properties
\* ------------------------------------------------------------------------
Strategies == {"get_rule_response", "bot2_answer", "bot3_answer"}

Invoked(fn) == \E i \in DOMAIN calls : calls[i].fn = fn

StrategyInvoked == \E i \in DOMAIN calls : calls[i].fn \in Strategies

\* records that only a strategy writes
StrategyRecord(r) == r.bot \in {"BOT-2", "BOT-2-RECOVERY", "BOT-3"}

Returned(text) == [kind |-> "returned", value |-> text]

\* the function called for a member of execution_order
FnOf(bot_name) ==
    IF bot_name = "BOT-1" THEN "get_rule_response"
    ELSE IF bot_name = "BOT-2" THEN "bot2_answer"
    ELSE "bot3_answer"

\* every strategy was called and none was confident
AllNotConfident ==
    /\ \E i \in DOMAIN calls :
          /\ calls[i].fn = "get_rule_response"
          /\ calls[i].out \in {"not_confident", "raise"}
    /\ \E i \in DOMAIN calls :
          /\ calls[i].fn = "bot2_answer"
          /\ calls[i].out \in {"not_confident", "raise"}
    /\ \E i \in DOMAIN calls :
          /\ calls[i].fn = "bot3_answer"
          /\ calls[i].out = "not_confident"

\* the similarity Strategy B reported (0 when it raised)
Bot2Reported ==
    LET i == CHOOSE k \in DOMAIN calls : calls[k].fn = "bot2_answer"
    IN  calls[i].score

\* log_unresolved_query was called for the query and, unless the file
\* system failed, the queue holds an entry for it
LoggedUnresolved ==
    \E i \in DOMAIN calls :
        /\ calls[i].fn = "log_unresolved_query"
        /\ calls[i].out = "ok" =>
              \E k \in DOMAIN unresolved_file : unresolved_file[k].query = query

\* C1: a query matching a self-harm pattern is answered with the crisis
\* text of validate_query, and neither the Scope Guard, the classifier nor a
\* strategy is invoked and no strategy audit record is written.
C1_SelfHarmReturnsCrisis ==
    (pc = "done" /\ is_self_harm_or_violence(query)) =>
        /\ result = Returned(CrisisMessage)
        /\ ~Invoked("scope_check")
        /\ ~Invoked("predict_category")
        /\ ~StrategyInvoked
        /\ \A i \in DOMAIN audit : ~StrategyRecord(audit[i])

\* C2: every invocation of handle_query ends by returning a response string;
\* none ends by raising.
C2_AlwaysReturnsResponse ==
    pc = "done" => result.kind = "returned"

\* C3: when scope_check reports the query out of scope, handle_query returns
\* the out-of-scope response, writes no ERROR record and invokes neither the
\* classifier nor a strategy.
C3_OutOfScopeExplained ==
    (/\ pc = "done"
     /\ \E i \in DOMAIN calls :
           /\ calls[i].fn = "scope_check"
           /\ calls[i].out \in {"out_of_scope", "programming_out_of_scope"}) =>
        /\ result = Returned(OUT_OF_SCOPE_RESPONSE)
        /\ \A i \in DOMAIN audit : audit[i].event # "ERROR"
        /\ ~Invoked("predict_category")
        /\ ~StrategyInvoked

\* C4: for a valid in-scope query on which is_rag_forbidden holds, only
\* Strategy A is executed: bot2_answer and bot3_answer are never invoked.
C4_ForcedDeterministicOnlyRule ==
    (routed_to_bot # None /\ is_rag_forbidden(query)) =>
        /\ ~Invoked("bot2_answer")
        /\ ~Invoked("bot3_answer")

\* C5: once Strategy A or B returned a confident answer, no strategy is
\* invoked after it and the response returned is that answer's text.
C5_StopAtFirstConfident ==
    \A i \in DOMAIN calls :
        (/\ calls[i].fn \in {"get_rule_response", "bot2_answer"}
         /\ calls[i].out = "confident") =>
            /\ \A j \in DOMAIN calls : j > i => calls[j].fn \notin Strategies
            /\ pc = "done" => result = Returned(calls[i].text)

CriticalHandlerEntered ==
    \/ pc = "except"
    \/ \E i \in DOMAIN audit :
          audit[i] = AuditRecord("ERROR", "main_orchestrator")

\* the for loop and the escalation to Strategy C are over
ChainOver == pc \in {"respond", "finally", "done"}

\* C8: when a strategy call raises, the exception does not reach the
\* top-level handler, every strategy after it in the execution order is
\* attempted until one answers confidently, and the response comes from a
\* later strategy or is the strategy-level error text.
C8_FaultIsolation ==
    \A i \in DOMAIN calls :
        (calls[i].fn \in Strategies /\ calls[i].out = "raise") =>
            /\ ~CriticalHandlerEntered
            /\ ChainOver =>
                  \A p, n \in DOMAIN execution_order :
                      (FnOf(execution_order[p]) = calls[i].fn /\ n > p) =>
                          \E j \in DOMAIN calls :
                              /\ j > i
                              /\ calls[j].fn \in Strategies
                              /\ \/ calls[j].fn = FnOf(execution_order[n])
                                 \/ calls[j].out = "confident"
            /\ pc = "done" =>
                  /\ result.kind = "returned"
                  /\ \/ result.value = SystemErrorMessage
                     \/ \E j \in DOMAIN calls :
                           /\ j > i
                           /\ calls[j].fn \in Strategies
                           /\ calls[j].out # "raise"
                           /\ result.value = calls[j].text

\* C9: a query that is_greeting accepts is answered with the canned greeting
\* and neither the classifier nor a strategy is invoked.
C9_GreetingShortCircuits ==
    (pc = "done" /\ is_greeting(query)) =>
        /\ result = Returned(greeting_msg)
        /\ ~Invoked("predict_category")
        /\ ~StrategyInvoked

\* C10: for a query matching a self-harm pattern validate_query returns
\* (False, crisis message), whatever other checks the text also matches.
C10_SelfHarmTopPriority ==
    (ctx["validation"] # None /\ is_self_harm_or_violence(query)) =>
        ctx["validation"][1] = [valid |-> FALSE, reason |-> CrisisMessage]

\* a validated query that matches a self-harm pattern and an abuse pattern
\* and was rejected with the crisis message
C10_Witness ==
    /\ ctx["validation"] # None
    /\ is_self_harm_or_violence(query)
    /\ is_abusive(query)
    /\ ctx["validation"][1].reason = CrisisMessage

\* the checks in the order of the claim, each with its rejection reason
OrderedChecks(q) ==
    << <<q = <<>>, EmptyMessage>>,
       <<is_self_harm_or_violence(q), CrisisMessage>>,
       <<is_abusive(q), AbuseMessage>>,
       <<is_prompt_injection(q), InjectionMessage>>,
       <<is_sensitive_extraction_attempt(q), DeniedMessage>>,
       <<is_gibberish(q), GibberishMessage>>,
       <<WordCount(q) < 2, TooShortMessage>> >>

\* C11: validate_query returns the rejection reason of the first check, in
\* the order empty, self-harm, abusive, prompt-injection, sensitive-data,
\* gibberish, fewer-than-2-words, that fires on the stripped query; it
\* returns (True, "valid") iff no check fires; and the call leaves the
\* unresolved-query file and the stats file as they were.
C11_FirstCheckDecides ==
    ctx["validation"] # None =>
        LET checks == OrderedChecks(Strip(query))
            firing == {i \in DOMAIN checks : checks[i][1]}
            v == ctx["validation"][1]
        IN  /\ v.valid <=> firing = {}
            /\ firing = {} => v.reason = "valid"
            /\ \A i \in firing :
                  (\A j \in firing : i <= j) => v.reason = checks[i][2]
            /\ unresolved_file = <<UnresolvedEntry(PriorQuery, "General", 0, 0)>>
            /\ stats_file = [k \in {} |-> 0]

\* a validated query on which the abuse check and the word-count check both
\* fire and that was rejected with the reason of the abuse check
C11_Witness ==
    /\ ctx["validation"] # None
    /\ ~is_self_harm_or_violence(Strip(query))
    /\ is_abusive(Strip(query))
    /\ WordCount(Strip(query)) < 2
    /\ ctx["validation"][1] = [valid |-> FALSE, reason |-> AbuseMessage]

\* C12: on every return of bot2_answer the confident flag is true iff the
\* returned similarity is at least BOT2_SIMILARITY_THRESHOLD.
C12_ConfidentIffHighSimilarity ==
    (b2_result # None /\ b2_result[1].kind = "returned") =>
        (b2_result[1].confident <=>
            b2_result[1].similarity >= BOT2_SIMILARITY_THRESHOLD)

\* C13: a hit of the recovery pass replaces the original best hit only when
\* its similarity is strictly greater than that of the original best hit and
\* at least BOT2_MIN_SIMILARITY, and the pass is not run when the original
\* best similarity is at least BOT2_SIMILARITY_THRESHOLD.
C13_RecoveryOnlyImproves ==
    /\ best_recovery_hit # None =>
          /\ best_recovery_hit[1].similarity > best_hit[1].similarity
          /\ best_recovery_hit[1].similarity >= BOT2_MIN_SIMILARITY
    /\ (b2_pc = "recovery" \/ dom_idx > 0) =>
          /\ best_hit # None
          /\ best_hit[1].similarity < BOT2_SIMILARITY_THRESHOLD
    /\ (/\ b2_result # None
        /\ b2_result[1].kind = "returned"
        /\ b2_result[1].confident
        /\ dom_idx > 0) =>
          /\ b2_result[1].similarity > best_hit[1].similarity
          /\ b2_result[1].similarity >= BOT2_MIN_SIMILARITY

\* bot2_answer returned the hit of the recovery pass, which was itself
\* replaced once by a better one
C13_Witness ==
    /\ b2_pc = "done"
    /\ best_recovery_hit # None
    /\ b2_result = Some(Bot2Returned(best_recovery_hit[1].answer,
                                     best_recovery_hit[1].similarity, TRUE))
    /\ best_recovery_hit[1].similarity = 80
    /\ best_recovery_hit[1].domain = "Cross-Domain Queries"

\* C14: on the local route, when the confidence of the best retrieved chunk
\* is below BOT3_MIN_CONFIDENCE, bot3_answer returns the no-information
\* sentinel with confident = false and the text generator is not called.
C14_LowConfidenceRejected ==
    (/\ b3_pc = "done"
     /\ b3_route = Some("local")
     /\ b3_chunks > 0
     /\ b3_conf[1] < BOT3_MIN_CONFIDENCE) =>
        /\ b3_result = Some(Bot3Returned(Bot3NoInfoMessage, 0, FALSE))
        /\ ollama_calls = 0

\* the categories the spec lists as lookup-first
LookupFirstCategories ==
    {"Admissions & Registrations", "Financial Matters", "Academic Affairs",
     "Campus Life", "Cross-Domain Queries", "General Information"}

\* the category predict_category returned to this invocation
ClassifiedCategory == ctx["classifier"][1].category

C16_ClassifierDegrades ==
    \A i \in DOMAIN calls :
        (calls[i].fn = "predict_category" /\ classifier_pkl # "loadable") =>
            /\ calls[i].out = "return"
            /\ calls[i].text = "General"
            /\ calls[i].score = 0
            /\ ~CriticalHandlerEntered
            /\ pc = "route" \/ execution_order # <<>>

\* the completed calls that counted the key
CompletedFor(key) ==
    {t \in Threads : /\ st_pc[t] = "done"
                     /\ ~NotCounted(st_query[t])
                     /\ formatted_query(st_query[t]) = key}

StatsKeys == {formatted_query(q) : q \in StatsQueries}

Rebuilding(p) ==
    ix_pc[p] \in {"rb_rmtree", "rb_mkdir", "rb_index", "rb_index_end", "rb_meta",
                  "rb_meta_end"}

\* C18: a get_domain_qa_resources call never reads the index or the metadata
\* file while a rebuild is deleting or rewriting the directory, and what it
\* returns is the complete old pair or the complete new pair.
C18_ReadsCompletePair ==
    /\ ix_pc["reader"] \in {"read_index", "load_meta"} =>
          ~Rebuilding("updater")
    /\ ix_result # None =>
          ix_result \in {Some(<<"old", "old">>), Some(<<"new", "new">>)}

RecordsOf(event) == {i \in DOMAIN audit : audit[i].event = event}

\* C20: when handle_query is over, on whatever path, the audit log holds
\* exactly one LATENCY record and at least one ROUTING_DECISION or ERROR
\* record, each with the query id of the invocation; no invocation writes a
\* second LATENCY record.
C20_LatencyAndOutcomeLogged ==
    /\ Cardinality(RecordsOf("LATENCY")) <= 1
    /\ pc = "done" =>
          /\ Cardinality(RecordsOf("LATENCY")) = 1
          /\ RecordsOf("ROUTING_DECISION") \cup RecordsOf("ERROR") # {}
          /\ \A i \in RecordsOf("LATENCY") \cup RecordsOf("ROUTING_DECISION")
                        \cup RecordsOf("ERROR") :
                Some(audit[i].query_id) = ctx["query_id"]

\* a rejected query whose finally block raised after writing the LATENCY
\* record
C20_Witness ==
    /\ pc = "done"
    /\ result.kind = "raised"
    /\ RecordsOf("ROUTING_DECISION") # {}
    /\ Cardinality(RecordsOf("LATENCY")) = 1

\* C21: a search_web call that finds an entry stored less than cache_ttl
\* seconds ago returns the stored result without consulting the web-search
\* collaborator; one that finds an entry cache_ttl seconds old or older
\* evicts it and consults the collaborator; without a collaborator an
\* uncached query returns the empty string and nothing is raised; only
\* non-empty results are stored.
C21_CacheWithinTtl ==
    /\ \A q \in DOMAIN web_cache : web_cache[q].result # ""
    /\ web_last # None =>
          LET l == web_last[1] IN
          /\ (l.had # None /\ l.at < l.had[1].timestamp + cache_ttl) =>
                /\ l.result = l.had[1].result
                /\ ~l.consulted
                /\ web_cache[l.query] = l.had[1]
          /\ (l.had # None /\ l.at >= l.had[1].timestamp + cache_ttl) =>
                /\ l.consulted
                /\ l.query \in DOMAIN web_cache => web_cache[l.query].timestamp >= l.at
          /\ (~tavily /\ l.had = None) =>
                /\ l.result = ""
                /\ ~l.raised
                /\ ~l.consulted

\* a call one second before the expiry of the entry it found
C21_Witness ==
    /\ web_last # None
    /\ web_last[1].had # None
    /\ web_last[1].at = web_last[1].had[1].timestamp + cache_ttl - 1
    /\ web_last[1].result = web_last[1].had[1].result
    /\ tavily_calls = 1

\* C22: the chunks of a document tile it: the first starts at offset 0, each
\* next one starts overlap characters before the end of the one before, and
\* the chunk that reaches the end of the text is the last one: no chunk is
\* emitted after it, and the list returned ends with it.
C22_ChunksTile ==
    /\ ch_chunks # <<>> => ch_chunks[1].start_char = 0
    /\ \A i \in 1..(Len(ch_chunks) - 1) :
          ch_chunks[i].end_char - ch_chunks[i + 1].start_char = ch_overlap
    /\ \A i \in 1..(Len(ch_chunks) - 1) : ch_chunks[i].end_char < ch_len
    /\ ch_pc = "done" => ch_chunks[Len(ch_chunks)].end_char = ch_len

\* C28: chunk_document terminates whenever 0 <= overlap < chunk_size: from
\* one loop iteration to the next the start offset strictly increases, so a
\* text of n characters yields at most n chunks, and a loop that has
\* reached the end of the text stops.
C28_StartIncreases ==
    /\ ch_overlap < ch_size
    /\ \A i \in 1..(Len(ch_chunks) - 1) :
          ch_chunks[i + 1].start_char > ch_chunks[i].start_char
    /\ Len(ch_chunks) <= ch_len + 1
    /\ ch_pc = "loop" => ch_start < ch_len

\* the lists a query meets
MeetsOutOfDomain(q) == Search(OUT_OF_SCOPE_PATTERNS, q)

MeetsProgramming(q) ==
    /\ Search(PROGRAMMING_PATTERNS, q)
    /\ \/ Contains(Lower(Strip(q)), <<"c", "o", "d", "e">>)
       \/ Contains(Lower(Strip(q)), <<"p", "r", "o", "g", "r", "a", "m">>)

MeetsKeyword(q) == \E k \in COLLEGE_SCOPE_KEYWORDS : Contains(Lower(Strip(q)), k)

ScopeDecided == "scope" \in DOMAIN ctx /\ ctx["scope"] # None

RecoveryFinished ==
    /\ b2_pc = "done"
    /\ dom_idx > Len(ALL_DOMAINS)
    /\ b2_result # None

\* the entries of recovery_seen that line 195 can accept
Qualifying ==
    { i \in DOMAIN recovery_seen :
        /\ recovery_seen[i].similarity > best_hit[1].similarity
        /\ recovery_seen[i].similarity >= BOT2_MIN_SIMILARITY }

FirstQualifying == CHOOSE i \in Qualifying : \A j \in Qualifying : i <= j

\* the earliest of the qualifying entries of highest similarity
BestQualifying ==
    CHOOSE i \in Qualifying :
        \A j \in Qualifying :
            \/ recovery_seen[i].similarity > recovery_seen[j].similarity
            \/ recovery_seen[i].similarity = recovery_seen[j].similarity /\ i <= j

\* bot2_answer returns the answer of entry i of recovery_seen
ReturnsEntry(i) ==
    /\ best_recovery_hit # None
    /\ best_recovery_hit[1].domain = recovery_seen[i].domain
    /\ b2_result = Some(Bot2Returned(best_recovery_hit[1].answer,
                                     recovery_seen[i].similarity, TRUE))

\* C24 (as stated): the recovery pass returns the answer of the first domain
\* in scan order whose top-1 similarity exceeds the original best and is at
\* least BOT2_MIN_SIMILARITY; a later domain never replaces it.
C24_FirstQualifyingReturned ==
    (RecoveryFinished /\ Qualifying # {}) => ReturnsEntry(FirstQualifying)

\* C24 (amended): the recovery pass returns the answer of the domain whose
\* top-1 similarity is the highest among those that exceed the original
\* best and are at least BOT2_MIN_SIMILARITY, the earliest in scan order
\* among equals; with no such domain the query is rejected.
C24_BestQualifyingReturned ==
    RecoveryFinished =>
        IF Qualifying # {}
        THEN ReturnsEntry(BestQualifying)
        ELSE b2_result = Some(Bot2Returned(Bot2LowMessage,
                                           best_hit[1].similarity, FALSE))

\* a later domain of higher similarity replaced an accepted hit, and two
\* domains tied at the top
C24_Witness ==
    /\ RecoveryFinished
    /\ Qualifying # {}
    /\ BestQualifying # FirstQualifying
    /\ \E j \in Qualifying :
          /\ j > BestQualifying
          /\ recovery_seen[j].similarity = recovery_seen[BestQualifying].similarity

\* the length of the first k chunks of cx_chunks as the context holds them
PrefixChars(k) ==
    JoinedLen([i \in 1..k |-> 15 + cx_chunks[i].source + 2 + cx_chunks[i].text], 2)

ContextBudget == MAX_CONTEXT_CHARS_PER_TURN * TOP_K_BOT3

\* C25: the context bot3_answer passes to the generator is a rank-order
\* prefix of the retrieved chunks whose total length is within
\* MAX_CONTEXT_CHARS_PER_TURN * TOP_K_BOT3; the first chunk that would
\* exceed the budget and every chunk after it are left out.
C25_ContextWithinBudget ==
    cx_prompt # None =>
        /\ cx_prompt[1].chars <= ContextBudget
        /\ cx_prompt[1].included <= Len(cx_chunks)
        /\ cx_prompt[1].included < Len(cx_chunks) =>
              PrefixChars(cx_prompt[1].included + 1) > ContextBudget

\* C26: when the generator is unavailable or its call fails while local
\* retrieval returned at least one chunk, the response of bot3_answer
\* carries retrieved raw text with a source citation; unparseable output
\* is returned as raw text followed by a source citation.
C26_FallbackCarriesText ==
    (b3_pc = "done" /\ b3_result # None /\ b3_result[1].kind = "returned"
        /\ b3_chunks >= 1 /\ b3_result[1].confident) =>
        b3_result[1].answer \in {RagAnswer, RawAnswer, ExtractedInfo}

\* the boosted score of a hit: 0.1 more for a domain match, at most 1.0
Boosted(h) == IF h.is_match THEN Min(100, h.similarity + 10) ELSE h.similarity

\* bot2_answer returned from the primary search, without the recovery pass
PrimaryReturn ==
    /\ b2_pc = "done"
    /\ b2_result # None
    /\ b2_result[1].kind = "returned"
    /\ best_hit # None
    /\ dom_idx = 0
    /\ b2_result[1].answer # Bot2ErrorMessage

\* C27: the best hit of the primary search is the valid candidate with the
\* highest boosted score (similarity plus 0.1 for a domain match, capped at
\* 1.0), and the similarity returned and compared with both thresholds is
\* that hit's unboosted similarity, never the boosted score.
C27_BestByBoostReturnsUnboosted ==
    /\ \A i \in DOMAIN valid_hits :
          /\ valid_hits[i].effective_score = Boosted(valid_hits[i])
          /\ valid_hits[i].effective_score <= 100
    /\ best_hit # None =>
          /\ \E i \in DOMAIN valid_hits : valid_hits[i] = best_hit[1]
          /\ \A i \in DOMAIN valid_hits :
                Boosted(best_hit[1]) >= Boosted(valid_hits[i])
          /\ best_recovery_hit = None => max_similarity = best_hit[1].similarity
          /\ (b2_pc = "recovery" \/ dom_idx > 0) =>
                best_hit[1].similarity < BOT2_MIN_SIMILARITY
    /\ PrimaryReturn =>
          /\ b2_result[1].similarity = best_hit[1].similarity
          /\ b2_result[1].confident <=>
                best_hit[1].similarity >= BOT2_SIMILARITY_THRESHOLD
          /\ b2_result[1].answer = Bot2LowMessage <=>
                /\ best_hit[1].similarity < BOT2_MIN_SIMILARITY
                /\ ~RecoveryApplies(b2_category)
          /\ b2_result[1].answer # Bot2LowMessage =>
                b2_result[1].answer = best_hit[1].answer

\* the boost put a hit of lower similarity first, its boosted score reaches
\* the minimum, and the answer was rejected on its unboosted similarity
C27_Witness ==
    /\ PrimaryReturn
    /\ b2_result[1].answer = Bot2LowMessage
    /\ best_hit[1].effective_score >= BOT2_MIN_SIMILARITY
    /\ \E i \in DOMAIN valid_hits :
          valid_hits[i].similarity > best_hit[1].similarity

\* the boost of a hit was cut at 1.0
C27_WitnessClamped ==
    /\ PrimaryReturn
    /\ best_hit[1].is_match
    /\ best_hit[1].similarity = 95
    /\ best_hit[1].effective_score = 100

\* StatsManager.increment_query_count was called for the query
UsageCounted ==
    \E i \in DOMAIN calls : calls[i].fn = "increment_query_count"

\* the query was rejected by the validator
ValidatorRejected ==
    \E i \in DOMAIN calls :
        calls[i].fn = "validate_query" /\ calls[i].out = "invalid"

\* the scope guard judged the query a greeting, or out of scope
JudgedGreeting == ctx["scope"] # None /\ ctx["scope"][1].reason = "greeting"

JudgedOutOfScope == ctx["scope"] # None /\ ~ctx["scope"][1].in_scope

\* the handler of Strategy C (lines 341-344) was entered
StrategyCHandlerEntered ==
    \E i \in DOMAIN calls :
        calls[i].fn = "bot3_answer" /\ calls[i].out = "raise"

\* C29: increment_query_count is called only for a query answered through
\* the strategy chain without error: never for a query the validator
\* rejected, a greeting, a query judged out of scope, or a query that ended
\* in the top-level or the Strategy C error handler.
C29_CountedOnlyWhenAnswered ==
    UsageCounted =>
        /\ ~ValidatorRejected
        /\ ~JudgedGreeting
        /\ ~JudgedOutOfScope
        /\ ~CriticalHandlerEntered
        /\ ~StrategyCHandlerEntered

====
